---- MODULE Spec2Model ----
(***************************************************************************)
(* A model of the FTP client of src/src/connection.ts: the command         *)
(* dispatcher (_send, the parser's "response" handler, the keepalive       *)
(* timer), session teardown (end, destroy, _reset) and the data-channel    *)
(* broker (_pasv, pasvOrPort, pasvReentry, _pasvConnect, list).            *)
(*                                                                         *)
(* Node runs one macrotask (an I/O event, a timer, a call made by the      *)
(* user) at a time and then drains the promise jobs it queued.  Every      *)
(* action below is one macrotask, except RunMicro, which is the promise    *)
(* job that resumes a _send generator after its callback settled the       *)
(* promise it awaits; while such a job is pending no macrotask can run.    *)
(*                                                                         *)
(* Spec, SpecLists and SpecDrain start connected and logged in ("ready");   *)
(* SpecLogin starts at connect().  The control socket is "connecting",     *)
(* "open", "handshake" (TLS being negotiated), "ended" (ended locally),     *)
(* "dead" (failed) or "none" (dropped by _reset).                           *)
(***************************************************************************)
EXTENDS Integers, Sequences, FiniteSets, TLC

VARIABLES
    socket,      \* this._socket: "open", or "none" once _reset dropped it
    curReq,      \* this._curReq: a request id, NOOP (noopreq) or None
    queue,       \* this._queue: request ids not yet written
    reqs,        \* every request _send created, by id
    keepalive,   \* this._keepalive is an armed timer
    ending,      \* this._ending
    pasvSocket,  \* this._pasvSocket: the data operation whose socket it is, or 0
    ops,         \* the facade calls made so far, in call order
    micro,       \* pending promise jobs: generators to resume
    srv,         \* commands written that the server has not finished answering
    dataOrder,   \* the data operations, in the order their data command was written
    dir,         \* the server's directory: the lines a LIST transfers
    connected,   \* this.connected
    secure,      \* options.secure
    login,       \* connect()'s closure: cmd, doSignal, the connTimeout timer; _secstate
    promise,     \* the promise connect() returned
    emitted,     \* how often 'greeting' and 'ready' were emitted
    tree,        \* the server's directories along the path of mkdir, and its working directory
    active,      \* active mode: options.portAddress is set, this._usePort, and whether the
                 \* server connects on PORT or (RFC 959, 3.2) on the transfer command
    parser,      \* the reply parser: the control-channel input and how much of it has
                 \* arrived, Parser._buffer, and the codes of the 'response' events
    server,      \* createServer: the range given, min and max, the ports that cannot
                 \* be bound, the ports listen() was called with, and the promise
    stream       \* one reply stream, promise job by promise job: the locals of its
                 \* _send generator, the for-await loop that consumes it, the chunk
                 \* Parser._write is working on, and the promise jobs waiting

connection == <<socket, curReq, queue, reqs, keepalive, ending, pasvSocket, ops, micro, srv, dataOrder, dir,
                connected, secure, login, promise, emitted, tree, active>>

vars == <<connection, parser, server, stream>>

\* ---------------------------------------------------------------- bounds
MaxCalls == 2

\* Segments of the path given to mkdir.
MaxSegs == 2

\* Replies in the input given to the parser.
MaxReplies == 2

\* ------------------------------------------------------- program constants
None == -1
NOOP == 0
GREET == -2
PRELIM == 1
OK == 2
WAITING == 3
ERR_TEMP == 4
ERR_PERM == 5

\* The program state as one record, so that a handler's statements compose.
St ==
    [socket |-> socket, curReq |-> curReq, queue |-> queue, reqs |-> reqs,
     keepalive |-> keepalive, ending |-> ending, pasvSocket |-> pasvSocket,
     ops |-> ops, micro |-> micro, srv |-> srv,
     dataOrder |-> dataOrder, dir |-> dir, connected |-> connected,
     secure |-> secure, login |-> login, promise |-> promise, emitted |-> emitted,
     tree |-> tree, active |-> active]

Commit(s) ==
    /\ socket' = s.socket
    /\ curReq' = s.curReq
    /\ queue' = s.queue
    /\ reqs' = s.reqs
    /\ keepalive' = s.keepalive
    /\ ending' = s.ending
    /\ pasvSocket' = s.pasvSocket
    /\ ops' = s.ops
    /\ micro' = s.micro
    /\ srv' = s.srv
    /\ dataOrder' = s.dataOrder
    /\ dir' = s.dir
    /\ connected' = s.connected
    /\ secure' = s.secure
    /\ login' = s.login
    /\ promise' = s.promise
    /\ emitted' = s.emitted
    /\ tree' = s.tree
    /\ active' = s.active
    /\ parser' = parser
    /\ server' = server
    /\ stream' = stream

Retval(code) == code \div 100

IsError(code) == Retval(code) \in {ERR_TEMP, ERR_PERM}

\* -------------------------------------------------------------- createServer

\* The greatest port number; a greater max is replaced by it.
MaxPortNumber == 65535

\* No listener was asked for.
NoServer ==
    [range |-> <<0, 0>>, min |-> 0, max |-> 0, busy |-> {}, tried |-> <<>>, st |-> "none",
     port |-> 0, msg |-> ""]

\* s.listen(port, ip): a port beyond the greatest makes listen throw; otherwise
\* the bind is under way, and 'listening' or 'error' follows.
s_listen(sv, port) ==
    IF port > MaxPortNumber
    THEN [sv EXCEPT !.st = "rejected", !.msg = "RangeError"]
    ELSE [sv EXCEPT !.st = "binding", !.port = port, !.tried = Append(@, port)]

\* An error handler that goes on to the port after max.
errfPastMax(sv) ==
    IF sv.min <= sv.max
    THEN s_listen([sv EXCEPT !.min = @ + 1], sv.min + 1)
    ELSE [sv EXCEPT !.st = "rejected", !.msg = "Unable to find available port"]

\* The listener's 'error' handler.
errf(sv) ==
    IF sv.min < sv.max
    THEN s_listen([sv EXCEPT !.min = @ + 1], sv.min + 1)
    ELSE [sv EXCEPT !.st = "rejected", !.msg = "Unable to find available port"]

\* createServer("a-b"): a and b as parseInt gives them, 0 for a part that is
\* empty; busy are the ports that cannot be bound.
createServer(a, b, busy) ==
    LET min == IF a = 0 THEN 1 ELSE a
        max == IF b = 0 \/ b > MaxPortNumber THEN MaxPortNumber ELSE b
    IN  s_listen([NoServer EXCEPT !.range = <<a, b>>, !.min = min, !.max = max,
                                  !.busy = busy, !.st = "pending"], min)

\* ------------------------------------------------------- one reply stream
\*
\* The reply stream of one command, LIST, at the grain of promise jobs.  res,
\* promRes, promRej and isLast are the locals of its _send generator; pending
\* tells whether the promise it awaits is unsettled, v is the value the
\* promise was settled with; codes and replies are sendList's; chunk is what
\* Parser._write has still to match; jobs is the promise job queue.

\* No stream is looked at.
NoStream ==
    [all |-> <<>>, chunks |-> 0, input |-> <<>>, chunk |-> <<>>, jobs |-> <<>>, curReq |-> "none",
     queued |-> FALSE, called |-> FALSE, res |-> FALSE, pending |-> FALSE, promRes |-> 0,
     promRej |-> 0, v |-> 0, isLast |-> FALSE, codes |-> <<>>, replies |-> 0, out |-> "none"]

\* A callback that keeps a reply only when the generator is waiting for it.
callbackNoSlot(st, err, num) ==
    IF st.res /\ st.pending
    THEN [st EXCEPT !.pending = FALSE, !.v = num,
                    !.jobs = Append(@, IF err THEN "throw" ELSE "resume")]
    ELSE st

\* The callback _send gave the request: it settles the promise the generator
\* awaits, or leaves the reply in promRes (the error in promRej).  Settling a
\* promise that is settled does nothing.
callback(st, err, num) ==
    IF st.res
    THEN IF st.pending
         THEN [st EXCEPT !.pending = FALSE, !.v = num,
                         !.jobs = Append(@, IF err THEN "throw" ELSE "resume")]
         ELSE st
    ELSE IF err THEN [st EXCEPT !.promRej = num] ELSE [st EXCEPT !.promRes = num]

\* getLast(this._send()): with no request in flight the next command of the
\* queue is written.
sendQueued(st) ==
    IF st.curReq = "none" /\ st.queued
    THEN [st EXCEPT !.curReq = "next", !.queued = FALSE]
    ELSE st

\* The request in flight gets the reply; only LIST's callback feeds the stream.
tempReq_cb(st, req, err, num) ==
    IF req = "LIST" THEN callback(st, err, num) ELSE st

\* The parser's "response" handler.
onResponse(st, code) ==
    IF Retval(code) \in {ERR_TEMP, ERR_PERM}
    THEN IF st.curReq # "none"
         THEN sendQueued(tempReq_cb([st EXCEPT !.curReq = "none"], st.curReq, TRUE, code))
         ELSE st
    ELSE IF st.curReq # "none"
         THEN IF Retval(code) # PRELIM
              THEN sendQueued(tempReq_cb([st EXCEPT !.curReq = "none"], st.curReq, FALSE, code))
              ELSE tempReq_cb(st, st.curReq, FALSE, code)
         ELSE st

\* Parser._write after `await this.emit(...)`: the next reply of the chunk, or
\* cb().
writeLoop(st) ==
    IF st.chunk # <<>>
    THEN [onResponse([st EXCEPT !.chunk = Tail(@)], Head(st.chunk)) EXCEPT !.jobs = Append(@, "write")]
    ELSE st

\* The generator after `await prom`: the locals are cleared, isLast is read
\* and the value is yielded.
resumeAwait(st) ==
    [st EXCEPT !.res = FALSE, !.promRes = 0, !.promRej = 0,
               !.isLast = (st.curReq = "none"), !.jobs = Append(@, "yield")]

\* itr.next(): the generator ends when isLast, else makes the next promise,
\* which a reply or an error left behind settles at once.
generator_next(st) ==
    IF st.isLast THEN [st EXCEPT !.jobs = Append(@, "end")]
    ELSE IF st.promRes # 0
    THEN [st EXCEPT !.res = TRUE, !.pending = FALSE, !.v = st.promRes, !.jobs = Append(@, "resume")]
    ELSE IF st.promRej # 0
    THEN [st EXCEPT !.res = TRUE, !.pending = FALSE, !.v = st.promRej, !.jobs = Append(@, "throw")]
    ELSE [st EXCEPT !.res = TRUE, !.pending = TRUE]

\* The body of sendList's for-await loop, and the next() that follows it.
forAwait_body(st) ==
    LET n == IF st.replies = 0 /\ st.v = 226 THEN 2 ELSE st.replies + 1
    IN  generator_next([st EXCEPT !.codes = Append(@, st.v), !.replies = n])

\* After the loop: final(), or the error about the number of replies.
sendList_end(st) ==
    [st EXCEPT !.out = IF st.replies = 2 THEN "final" ELSE "threw"]

\* One promise job.
runJob(st, job) ==
    CASE job = "write" -> writeLoop(st)
      [] job = "resume" -> resumeAwait(st)
      [] job = "yield" -> [st EXCEPT !.jobs = Append(@, "body")]
      [] job = "body" -> forAwait_body(st)
      [] job = "end" -> sendList_end(st)
      [] job = "throw" -> [st EXCEPT !.res = FALSE, !.out = "rejected"]

\* ---------------------------------------------------------- the reply parser
\*
\* Text is a sequence of characters; CR, LF and SP stand for "\r", "\n" and " ".

CR == "CR"
LF == "LF"
SP == "SP"

Digits == {"0", "2", "5"}

\* A parser that was given no input.
Unfed ==
    [replies |-> <<>>, pos |-> 0, buffer |-> <<>>, events |-> <<>>]

\* parseInt(m[1], 10) of three digits.
parseInt(d) ==
    LET v(c) == IF c = "0" THEN 0 ELSE IF c = "2" THEN 2 ELSE 5
    IN  100 * v(d[1]) + 10 * v(d[2]) + v(d[3])

\* (\d{3}) followed by a space, at index p of b.
CodeAt(b, p) ==
    /\ p + 3 <= Len(b)
    /\ b[p] \in Digits /\ b[p + 1] \in Digits /\ b[p + 2] \in Digits
    /\ b[p + 3] = SP

\* [^\r\n]*\r?\n from index p of b: the index of its last character, 0 if it
\* does not match.
LineEnd(b, p) ==
    LET E == {e \in p..Len(b) : b[e] \in {CR, LF}}
        e == CHOOSE x \in E : \A y \in E : x <= y
    IN  IF E = {} THEN 0
        ELSE IF b[e] = LF THEN e
        ELSE IF e + 1 <= Len(b) /\ b[e + 1] = LF THEN e + 1
        ELSE 0

\* The rest of RE_RES_END after (?:^|\r?\n), from index p of b; 0 for no match.
RestAt(b, p) ==
    IF p # 0 /\ CodeAt(b, p) THEN LineEnd(b, p + 4) ELSE 0

\* A mistranslation of MatchAt: the code matches anywhere, not only at the
\* start of the buffer or of a line.
MatchAnywhere(b, i) ==
    IF RestAt(b, i) # 0 THEN [last |-> RestAt(b, i), code |-> i]
    ELSE [last |-> 0, code |-> 0]

\* RE_RES_END tried at index i of b: ^ first, then \r?\n.
MatchAt(b, i) ==
    LET start == IF i = 1 THEN 1 ELSE 0
        line  == IF b[i] = LF THEN i + 1
                 ELSE IF b[i] = CR /\ i + 1 <= Len(b) /\ b[i + 1] = LF THEN i + 2
                 ELSE 0
    IN  IF RestAt(b, start) # 0 THEN [last |-> RestAt(b, start), code |-> start]
        ELSE IF RestAt(b, line) # 0 THEN [last |-> RestAt(b, line), code |-> line]
        ELSE [last |-> 0, code |-> 0]

\* RE_RES_END.exec(b): the leftmost match.
exec(b) ==
    LET I == {i \in 1..Len(b) : MatchAt(b, i).last # 0}
    IN  IF I = {} THEN [last |-> 0, code |-> 0]
        ELSE MatchAt(b, CHOOSE i \in I : \A j \in I : i <= j)

\* String.prototype.trim(): the white space at both ends is dropped.
RECURSIVE trim(_)
trim(line) ==
    IF line = <<>> THEN line
    ELSE IF Head(line) \in {SP, CR, LF} THEN trim(Tail(line))
    ELSE IF line[Len(line)] \in {SP, CR, LF} THEN trim(SubSeq(line, 1, Len(line) - 1))
    ELSE line

\* b.replace(reRmLeadCode2, "$1"): code and the space or hyphen after it are
\* dropped where they begin b (start) or follow a line feed.
RECURSIVE rmLeadCode(_, _, _)
rmLeadCode(b, code, start) ==
    IF b = <<>> THEN b
    ELSE IF start /\ Len(b) >= 4 /\ SubSeq(b, 1, 3) = code /\ b[4] \in {SP, "-"}
         THEN rmLeadCode(SubSeq(b, 5, Len(b)), code, FALSE)
    ELSE <<Head(b)>> \o rmLeadCode(Tail(b), code, Head(b) = LF)

\* The 'response' event for the match m in buffer b.
response_event(b, m) ==
    LET code == SubSeq(b, m.code, m.code + 2)
    IN  [code |-> parseInt(code), text |-> trim(rmLeadCode(SubSeq(b, 1, m.last), code, TRUE))]

\* The while loop of _write: a 'response' event for each terminating line in
\* the buffer, the rest kept.
RECURSIVE drain(_)
drain(p) ==
    LET m == exec(p.buffer)
    IN  IF m.last = 0 THEN p
        ELSE drain([p EXCEPT !.buffer = SubSeq(@, m.last + 1, Len(@)),
                             !.events = Append(@, response_event(p.buffer, m))])

\* A mistranslation of _write: the buffer starts afresh with every chunk.
_writeChunk(p, chunk) ==
    drain([p EXCEPT !.buffer = chunk, !.pos = @ + Len(chunk)])

\* Parser._write(chunk).
_write(p, chunk) ==
    drain([p EXCEPT !.buffer = @ \o chunk, !.pos = @ + Len(chunk)])

\* ------------------------------------------------------------ the dispatcher

\* this._feat before a FEAT reply was parsed.
Undefined ==
    [defined |-> FALSE, list |-> <<>>]

\* A reset that leaves the keepalive timer armed.
_resetKeepsTimer(s) ==
    [s EXCEPT !.socket = "none", !.curReq = None, !.queue = <<>>,
              !.ending = FALSE, !.connected = FALSE, !.srv = <<>>,
              !.login.feat = Undefined, !.login.secstate = ""]

\* _reset(): drops the socket, the queue and the in-flight request without
\* calling any callback.  The server sees the connection end and answers no more.
_reset(s) ==
    [s EXCEPT !.socket = "none", !.curReq = None, !.queue = <<>>,
              !.keepalive = FALSE, !.ending = FALSE, !.connected = FALSE, !.srv = <<>>,
              !.login.feat = Undefined, !.login.secstate = ""]

\* The request object _send creates, with the state of its generator (st).  The
\* rest is its history: for a promoted request, the request the dispatcher held
\* in flight (in _curReq) when it was made (behind), kept until the request is
\* written; the reply codes the server sent in answer to it (sent); the replies
\* its callback was given (got), each with the request it answered.
NewReq(s, cmd, promote, o) ==
    [cmd |-> cmd, op |-> o, promote |-> promote, st |-> "await",
     behind |-> IF promote THEN s.curReq ELSE None,
     sent |-> <<>>, got |-> <<>>]

\* Promotion inserts at the queue front; otherwise the request is appended.
Enqueue(q, id, promote) ==
    IF promote THEN <<id>> \o q ELSE Append(q, id)

\* The commands of the login sequence.
LoginCmds ==
    {"AUTH TLS", "AUTH SSL", "PBSZ 0", "PROT P", "USER", "PASS", "FEAT", "TYPE I"}

\* The writer: shift the queue head into _curReq, tag the data socket when the
\* command is ABOR, and write the command.  login.wire keeps the login commands
\* in the order they were written.
Write(s) ==
    LET r == Head(s.queue)
        tag == s.reqs[r].cmd = "ABOR" /\ s.pasvSocket # 0
    IN  [s EXCEPT !.curReq = r, !.queue = Tail(@),
                  !.reqs[r].behind = None,
                  !.login.wire = IF s.reqs[r].cmd \in LoginCmds THEN Append(@, s.reqs[r].cmd) ELSE @,
                  !.ops = IF tag THEN [@ EXCEPT ![s.pasvSocket].aborting = TRUE] ELSE @,
                  !.srv = Append(@, r),
                  !.dataOrder = IF s.reqs[r].cmd = "LIST" THEN Append(@, s.reqs[r].op) ELSE @]

\* May the writer take the queue head?
CanWrite(s) ==
    s.curReq = None /\ s.queue # <<>> /\ s.socket \in {"open", "ended"}

\* _send(cmd, promote) up to its reply loop; cmd = "" is the call without a command.
_send(s, cmd, promote, o) ==
    LET s1 == [s EXCEPT !.keepalive = FALSE]
        id == Len(s.reqs) + 1
        s2 == IF cmd # ""
              THEN [s1 EXCEPT !.reqs = Append(@, NewReq(s1, cmd, promote, o)),
                              !.queue = Enqueue(@, id, promote)]
              ELSE s1
    IN  IF CanWrite(s2) THEN Write(s2)
        ELSE IF s2.curReq = None /\ s2.queue = <<>> /\ s2.ending THEN _reset(s2)
        ELSE s2

\* noopreq.cb: (re)arm the keepalive timer.
noopreq_cb(s) ==
    [s EXCEPT !.keepalive = TRUE]

\* ------------------------------------------------------------- the login

\* The state of connect()'s closure once the session is ready.
LoggedIn ==
    [cmd |-> "TYPE", doSignal |-> FALSE, timer |-> FALSE, secstate |-> "", chain |-> 0,
     elapsed |-> FALSE, tls |-> FALSE, wire |-> <<>>, feat |-> Undefined, text |-> <<>>]

\* The promise of connect() settles: res / rej have an effect once only.
Settle(s, how, code, msg) ==
    IF s.promise.st = "pending"
    THEN [s EXCEPT !.promise = [st |-> how, code |-> code, msg |-> msg]]
    ELSE s

\* The login chain rejects: catchOnLoginError rethrows and, for the chain that
\* onconnect() returned (chain 0), rej is called.  A chain whose promise was
\* handed to a promise already resolved (chain -1) rejects unobserved.
loginRejects(s, chain, code, msg) ==
    IF chain = 0 THEN Settle(s, "rejected", code, msg) ELSE s

\* reentry sends the next login command, promoted, as cmd's successor.
sendNext(s, cmd, line, chain) ==
    _send([s EXCEPT !.login.cmd = cmd], line, TRUE, chain)

\* reentry([code, text]), run for the chain it belongs to.
reentry(s, code, chain) ==
    LET cmd == s.login.cmd
    IN  IF \/ cmd = "AUTH TLS" /\ code # 234 /\ s.secure # "true"
           \/ cmd = "AUTH SSL" /\ code # 334
           \/ cmd = "PBSZ" /\ code # 200
           \/ cmd = "PROT" /\ code # 200
        THEN loginRejects([s EXCEPT !.socket = IF @ = "open" THEN "ended" ELSE @],
                          chain, code, "Unable to secure connection(s)")
        ELSE IF cmd = ""
             THEN LET s1 == [s EXCEPT !.emitted.greeting = @ + 1]
                  IN  IF s.secure \notin {"false", "implicit"}
                      THEN sendNext(s1, "AUTH TLS", "AUTH TLS", chain)
                      ELSE sendNext(s1, "USER", "USER", chain)
        ELSE IF cmd = "USER"
             THEN IF code # 230
                  THEN sendNext(s, "PASS", "PASS", chain)
                  ELSE sendNext(s, "FEAT", "FEAT", chain)
        ELSE IF cmd = "PASS" THEN sendNext(s, "FEAT", "FEAT", chain)
        ELSE IF cmd = "FEAT" THEN sendNext(s, "TYPE", "TYPE I", chain)
        ELSE IF cmd = "TYPE"
             THEN LET s1 == [s EXCEPT !.emitted.ready = @ + 1, !.login.doSignal = FALSE]
                  IN  IF chain = 0 THEN Settle(s1, "resolved", 0, "") ELSE s1
        ELSE IF cmd = "PBSZ" THEN sendNext(s, "PROT", "PROT P", chain)
        ELSE IF cmd = "PROT" THEN sendNext(s, "USER", "USER", chain)
        ELSE IF cmd = "AUTH TLS" /\ code # 234
             THEN sendNext(s, "AUTH SSL", "AUTH SSL", chain)
        ELSE [s EXCEPT !.login.secstate = IF cmd = "AUTH TLS" THEN "upgraded-tls" ELSE "upgraded-ssl",
                       !.login.chain = chain,
                       !.curReq = None, !.socket = "handshake"]

\* The callback of the request onconnect installs for the greeting: the first
\* reply settles onconnect's promise (with reentry's result, or the error); a
\* later one still runs reentry, whose result is dropped.
greeting_cb(s, code) ==
    LET first == s.login.cmd = ""
    IN  IF IsError(code)
        THEN IF first THEN loginRejects(s, 0, code, "server") ELSE s
        ELSE reentry(s, code, IF first THEN 0 ELSE -1)

\* An onconnect that goes straight to USER after the upgrade.
onconnectSkipsPbsz(s) ==
    LET s1 == [s EXCEPT !.login.timer = FALSE, !.keepalive = FALSE,
                        !.connected = TRUE, !.socket = "open",
                        !.login.tls = s.login.secstate # ""]
    IN  IF s.login.secstate # ""
        THEN sendNext(s1, "USER", "USER", s.login.chain)
        ELSE [s1 EXCEPT !.curReq = GREET]

\* onconnect: the socket (or the TLS session over it) is connected; login.tls
\* tells whether this._socket is the TLS socket of the upgrade.
onconnect(s) ==
    LET s1 == [s EXCEPT !.login.timer = FALSE, !.keepalive = FALSE,
                        !.connected = TRUE, !.socket = "open",
                        !.login.tls = s.login.secstate # ""]
    IN  IF s.login.secstate # ""
        THEN IF s.login.secstate = "upgraded-tls" /\ s.secure = "true"
             THEN sendNext(s1, "PBSZ", "PBSZ 0", s.login.chain)
             ELSE sendNext(s1, "USER", "USER", s.login.chain)
        ELSE [s1 EXCEPT !.curReq = GREET]

\* onerror: the socket's "error" event.
onerror(s) ==
    LET s1 == [s EXCEPT !.login.timer = FALSE, !.keepalive = FALSE]
    IN  IF s.login.doSignal
        THEN [Settle(s1, "rejected", 0, "socket error") EXCEPT !.login.doSignal = FALSE]
        ELSE s1

\* onend: the socket's "end" event.
onend(s) ==
    LET s1 == _reset([s EXCEPT !.login.timer = FALSE])
    IN  IF s.login.doSignal
        THEN [Settle(s1, "rejected", 0, "End before ready") EXCEPT !.login.doSignal = FALSE]
        ELSE s1

\* The connTimeout timer fires.
ontimeout(s) ==
    LET s1 == _reset(s)
    IN  IF s.login.doSignal
        THEN [Settle(s1, "rejected", 0, "Timeout while connecting to server")
                 EXCEPT !.login.doSignal = FALSE]
        ELSE s1

\* A request's callback: noopreq's re-arms the timer; the one _send made settles
\* the promise its generator awaits, which queues the job that resumes it.
cb(s, r, code, addr) ==
    IF r = NOOP THEN noopreq_cb(s)
    ELSE IF r = GREET THEN greeting_cb(s, code)
    ELSE [s EXCEPT !.micro = Append(@, [r |-> r, code |-> code, addr |-> addr])]

\* A handler that takes every reply for a terminating one.
IsTerminatingAlways(retval) ==
    TRUE

\* Does a reply of this class end the in-flight request?
IsTerminating(retval) ==
    retval # PRELIM

\* An error branch that fails the request and forgets to advance the queue.
onErrorReplyNoAdvance(s, tempReq, code, addr) ==
    cb([s EXCEPT !.curReq = None], tempReq, code, addr)

\* The handler's branch for a 4xx/5xx reply with a request in flight: clear
\* _curReq, fail the request, advance the queue.
onErrorReply(s, tempReq, code, addr) ==
    _send(cb([s EXCEPT !.curReq = None], tempReq, code, addr), "", FALSE, 0)

\* The parser's "response" handler.
response(s, code, addr) ==
    LET retval == Retval(code)
        tempReq == s.curReq
        cleared == [s EXCEPT !.curReq = None]
        handled ==
            IF retval = ERR_TEMP \/ retval = ERR_PERM
            THEN IF tempReq # None
                 THEN onErrorReply(s, tempReq, code, addr)
                 ELSE IF s.login.doSignal
                      THEN [Settle(s, "rejected", code, "server") EXCEPT !.login.doSignal = FALSE]
                      ELSE s
            ELSE IF tempReq # None
                 THEN IF IsTerminating(retval)
                      THEN _send(cb(cleared, tempReq, code, addr), "", FALSE, 0)
                      ELSE cb(s, tempReq, code, addr)
                 ELSE s
    IN  noopreq_cb(handled)

\* A timer callback that does not look at the queue or at _curReq.
donoopAlways(s) ==
    IF s.socket # "open" THEN [s EXCEPT !.keepalive = FALSE]
    ELSE [s EXCEPT !.curReq = NOOP, !.keepalive = FALSE, !.srv = Append(@, NOOP)]

\* donoop: the keepalive timer fired.
donoop(s) ==
    IF s.socket # "open" THEN [s EXCEPT !.keepalive = FALSE]
    ELSE IF s.curReq = None /\ s.queue = <<>>
         THEN [s EXCEPT !.curReq = NOOP, !.keepalive = FALSE,
                        !.srv = Append(@, NOOP)]
         ELSE noopreq_cb(s)

\* --------------------------------------------------------- the data broker

NewOp(kind) ==
    [kind |-> kind, ph |-> IF kind = "list" THEN "chained" ELSE "sent", res |-> "pending",
     code |-> 0, sock |-> "none", ipSame |-> TRUE, replies |-> 0, done |-> FALSE,
     aborting |-> FALSE, freed |-> FALSE, buffer |-> <<>>, entries |-> <<>>, parent |-> 0,
     tls |-> FALSE, arg |-> "", useCompression |-> FALSE]

\* A broker that does not wait for the operations before it.
ChainReadyAlways(s, k) ==
    TRUE

\* this._pasvReady as seen by the k-th facade call: the chained completion of
\* every data operation called before it.
ChainReady(s, k) ==
    \A j \in 1..(k - 1) : s.ops[j].kind = "list" => s.ops[j].freed

\* No portAddress configured.
PassiveOnly ==
    [portAddress |-> FALSE, usePort |-> FALSE, onPort |-> FALSE]

\* pasvOrPort: negotiate with PASV, or, once PASV was refused and with
\* portAddress configured, create the listener for PORT.
pasvOrPort(s, k) ==
    IF ~s.active.usePort \/ ~s.active.portAddress
    THEN _send([s EXCEPT !.ops[k].ph = "pasv"], "PASV", FALSE, k)
    ELSE [s EXCEPT !.ops[k].ph = "listen"]

\* createServer resolved: reentryPort waits for the connection, then PORT is
\* sent, appended to the queue.
listening(s, o) ==
    _send([s EXCEPT !.ops[o].ph = "port", !.ops[o].sock = "listening"], "PORT", FALSE, o)

\* The continuation _pasv chains on its own completion: the next waiting
\* data operation starts once this one has settled.
StartNext(s, o) ==
    LET s1 == [s EXCEPT !.ops[o].freed = TRUE]
        waiting == {k \in 1..Len(s1.ops) : s1.ops[k].ph = "chained" /\ ChainReady(s1, k)}
    IN  IF waiting = {} THEN s1
        ELSE pasvOrPort(s1, CHOOSE k \in waiting : \A j \in waiting : k <= j)

\* list(path), called by rmdir(path, true) for operation o.
rmdir_list(s, o) ==
    LET k == Len(s.ops) + 1
        s1 == [s EXCEPT !.ops = Append(@, [NewOp("list") EXCEPT !.parent = o])]
    IN  IF ChainReady(s1, k) THEN pasvOrPort(s1, k) ELSE s1

\* The listing rmdir operation o asked for.
ListingOf(s, o) ==
    CHOOSE k \in 1..Len(s.ops) : s.ops[k].kind = "list" /\ s.ops[k].parent = o

\* rmdir(path, true) rejects: its listing, a DELE or an inner rmdir failed; the
\* rmdir that awaits it rejects as well.
RECURSIVE rmdir_fail(_, _, _)
rmdir_fail(s, o, code) ==
    LET s1 == [s EXCEPT !.ops[o].res = "error", !.ops[o].code = code, !.ops[o].ph = "end"]
    IN  IF s.ops[o].parent # 0 THEN rmdir_fail(s1, s.ops[o].parent, code) ELSE s1

\* The loop of rmdir(path, true) over the entries listed; ops[o].replies counts
\* the entries taken.  An entry "." or ".." is skipped, "d" is a directory,
\* removed by an inner rmdir(subpath, true), anything else a file, deleted with
\* DELE; after the last entry the promise resolves.
RECURSIVE rmdir_loop(_, _)
rmdir_loop(s, o) ==
    LET list == s.ops[ListingOf(s, o)].entries
        i == s.ops[o].replies + 1
        s1 == [s EXCEPT !.ops[o].replies = i]
    IN  IF i > Len(list)
        THEN LET s2 == [s EXCEPT !.ops[o].res = "ok", !.ops[o].ph = "end"]
             IN  IF s.ops[o].parent # 0 THEN rmdir_loop(s2, s.ops[o].parent) ELSE s2
        ELSE IF list[i] \in {".", ".."} THEN rmdir_loop(s1, o)
        ELSE IF list[i] = "d"
             THEN rmdir_list([s1 EXCEPT !.ops = Append(@, [NewOp("rmdir") EXCEPT !.parent = o])],
                             Len(s.ops) + 1)
        ELSE _send(s1, "DELE", FALSE, o)

\* Is o the listing of an rmdir(path, true)?
ForRmdir(s, o) ==
    s.ops[o].parent # 0 /\ s.ops[s.ops[o].parent].kind = "rmdir"

\* The finally block of list's compression branch, left when sendList has
\* settled: `await this._send("MODE S", true)` awaits the generator object that
\* _send returns; next() is never called on it, so its body does not run and
\* nothing is enqueued.
list_finally(s, o) ==
    s

\* Leaving func: through the finally block if sendList was called with
\* useCompression.
Leave(s, o) ==
    IF s.ops[o].useCompression /\ s.ops[o].ph \in {"data", "drain"} THEN list_finally(s, o) ELSE s

\* A rejection that the chain of data operations does not get past.
FailOpBlocks(s0, o, why, code) ==
    LET s  == Leave(s0, o)
        s1 == [s EXCEPT !.ops[o].res = why, !.ops[o].code = code, !.ops[o].ph = "end"]
    IN  IF ForRmdir(s, o) THEN rmdir_fail(s1, s.ops[o].parent, code) ELSE s1

\* The operation's promise rejects; nothing destroys its data socket.
FailOp(s0, o, why, code) ==
    LET s  == Leave(s0, o)
        s1 == StartNext([s EXCEPT !.ops[o].res = why, !.ops[o].code = code, !.ops[o].ph = "end"], o)
    IN  IF ForRmdir(s, o) THEN rmdir_fail(s1, s.ops[o].parent, code) ELSE s1

\* func resolved with the lines received (kept as they came, unparsed):
\* sock.destroy(), then the promise resolves.
CompleteOp(s0, o) ==
    LET s == Leave(s0, o)
        closed == [s EXCEPT !.ops[o].sock = IF @ = "open" THEN "destroyed" ELSE @,
                            !.pasvSocket = IF @ = o THEN 0 ELSE @,
                            !.ops[o].entries = s.ops[o].buffer,
                            !.ops[o].res = "ok", !.ops[o].ph = "end"]
    IN  IF ForRmdir(s, o) THEN rmdir_loop(StartNext(closed, o), s.ops[o].parent)
        ELSE StartNext(closed, o)

\* final() of list: settles once the data socket has ended and both replies came.
final(s, o) ==
    IF s.ops[o].done /\ s.ops[o].replies = 2
    THEN LET s1 == [s EXCEPT !.ops[o].replies = 3]
         IN  IF s1.ops[o].aborting THEN FailOp(s1, o, "aborted", 0) ELSE CompleteOp(s1, o)
    ELSE [s EXCEPT !.ops[o].ph = "drain"]

\* The callback list() hands to _pasv, up to sending the data command.
list_func(s, o) ==
    IF s.queue # <<>> /\ s.reqs[Head(s.queue)].cmd = "ABOR"
    THEN FailOp(s, o, "aborted", 0)
    ELSE IF s.ops[o].useCompression
         THEN _send([s EXCEPT !.ops[o].ph = "mode"], "MODE Z", TRUE, o)
    ELSE _send([s EXCEPT !.ops[o].ph = "data"], "LIST", TRUE, o)

\* pasvReentry: forget the in-flight request, parse the address on the first
\* entry, and start connecting.
pasvReentry(s, o, first, addr) ==
    LET s1 == [s EXCEPT !.curReq = None]
    IN  IF first /\ addr = "none" THEN FailOp(s1, o, "parse", 0)
        ELSE [s1 EXCEPT !.ops[o].ph = "conn",
                        !.ops[o].ipSame = IF first THEN addr = "same" ELSE TRUE]

\* _pasvConnect resolved: the rest of pasvReentry, then func.
pasvConnected(s, o) ==
    LET s1 == [s EXCEPT !.pasvSocket = o, !.ops[o].sock = "open",
                        !.ops[o].tls = s.secure = "true"]
    IN  list_func(_send(s1, "", FALSE, 0), o)

\* The listener of operation o got the server's connection: _portConnect
\* resolves with the socket as accepted, reentryPort advances the queue, and
\* func runs once PORT has been answered too.
portConnected(s, o) ==
    LET s1 == _send([s EXCEPT !.pasvSocket = o, !.ops[o].sock = "open"], "", FALSE, 0)
    IN  IF s.ops[o].ph = "accept" THEN list_func(s1, o) ELSE s1

\* PORT was answered 2xx: func runs if the connection is there already.
portAccepted(s, o) ==
    IF s.ops[o].sock = "open" THEN list_func(s, o)
    ELSE [s EXCEPT !.ops[o].ph = "accept"]

\* The data timeout of _portConnect: the listener is closed and ABOR is sent.
portTimedOut(s, o) ==
    _send([s EXCEPT !.ops[o].sock = "none",
                    !.ops[o].ph = IF @ = "end" THEN @ ELSE "abor"], "ABOR", TRUE, o)

\* _pasvConnect rejected (an error or the data timeout): retry on the control
\* peer's address when the advertised one differs, else send ABOR.
pasvConnectFailed(s, o) ==
    IF s.socket # "none" /\ ~s.ops[o].ipSame
    THEN pasvReentry(s, o, FALSE, "same")
    ELSE _send([s EXCEPT !.ops[o].ph = "abor"], "ABOR", TRUE, o)

\* ------------------------------------------ the consumers of a reply stream

\* The loop body of sendList, run for every value the stream yields.
onValue(s, r, code) ==
    LET o == s.reqs[r].op
        n == s.ops[o].replies + 1
    IN  IF s.reqs[r].cmd = "LIST"
        THEN [s EXCEPT !.ops[o].replies = IF n = 1 /\ code = 226 THEN 2 ELSE n]
        ELSE s

\* The optional commands pwd(), cdup(), size() and lastMod() send.
Optional == {"PWD", "CDUP", "SIZE", "MDTM"}

\* What pwd(), cdup(), size() and lastMod() do with a reply of code 502: a
\* promoted CWD . or CWD .., or a listing of the path (list() chained on the
\* data operations before it).
on502(s, o, c) ==
    IF c = "PWD" THEN _send(s, "CWD .", TRUE, o)
    ELSE IF c = "CDUP" THEN _send(s, "CWD ..", TRUE, o)
    ELSE LET s1 == [s EXCEPT !.ops[o].kind = "list", !.ops[o].ph = "chained"]
         IN  IF ChainReady(s1, o) THEN pasvOrPort(s1, o) ELSE s1

\* mkdir(path, true): path split into dirs, "d1/d2/..", relative (kind "mkdir")
\* or absolute (kind "mkdir/").
dirs == [i \in 1..MaxSegs |-> "d" \o ToString(i)]

MkdirKinds == {"mkdir", "mkdir/"}

\* The finally block of mkdir: back to the original working directory; code is
\* the error the try block threw, 0 if it returned.
mkdir_finally(s, o, code) ==
    _send([s EXCEPT !.ops[o].code = code, !.ops[o].ph = "finally"], "CWD owd", TRUE, o)

\* nextDir(): i and searching are locals of the call.
nextDir(s, o) ==
    LET i == -1 + 1
        searching == TRUE
    IN  IF i = MaxSegs THEN mkdir_finally(s, o, 0)
        ELSE IF searching THEN _send(s, "CWD " \o dirs[i + 1], TRUE, o)
        ELSE _send(s, "MKD " \o dirs[i + 1], TRUE, o)

\* mkdir goes on after the command c of operation o was answered.
mkdir_onEnd(s, o, c) ==
    IF c = "PWD"
    THEN IF s.ops[o].kind = "mkdir/" THEN _send(s, "CWD /", TRUE, o) ELSE nextDir(s, o)
    ELSE IF c = "CWD owd"
         THEN [s EXCEPT !.ops[o].res = IF s.ops[o].code = 0 THEN "ok" ELSE "error",
                        !.ops[o].ph = "end"]
    ELSE IF \E i \in 1..MaxSegs : c = "MKD " \o dirs[i]
         THEN _send(s, "CWD " \o dirs[CHOOSE i \in 1..MaxSegs : c = "MKD " \o dirs[i]], TRUE, o)
    ELSE nextDir(s, o)

\* A command of mkdir was answered 4xx/5xx: pwd() rejects mkdir; an error in the
\* try block runs the finally block, an error in the finally block rejects.
mkdir_onReject(s, o, c, code) ==
    IF c \in {"PWD", "CWD owd"}
    THEN [s EXCEPT !.ops[o].res = "error", !.ops[o].code = code, !.ops[o].ph = "end"]
    ELSE mkdir_finally(s, o, code)

\* listSafe(path), after cwd(path): `return this.list()` calls list(), whose
\* broker starts in a later promise job; the finally block then calls
\* cwd(origpath), which runs _send at once.  The listing is operation k, its
\* parent the listSafe call.
listSafe_list(s, o) ==
    LET k == Len(s.ops) + 1
        s1 == [s EXCEPT !.ops = Append(@, [NewOp("list") EXCEPT !.parent = o])]
        s2 == _send(s1, "CWD owd", FALSE, o)
    IN  IF ChainReady(s2, k) THEN pasvOrPort(s2, k) ELSE s2

\* listSafe goes on after the command c of operation o was answered.
listSafe_onEnd(s, o, c) ==
    IF c = "PWD" THEN _send(s, "CWD path", FALSE, o)
    ELSE IF c = "CWD path" THEN listSafe_list(s, o)
    ELSE [s EXCEPT !.ops[o].ph = "restored"]

\* pwd(), cwd(path) or cwd(origpath) rejected: so does listSafe.
listSafe_onReject(s, o, code) ==
    [s EXCEPT !.ops[o].res = "error", !.ops[o].code = code, !.ops[o].ph = "end"]

\* Parser.parseFeat(text): text.split(RE_EOL) is the sequence of the lines;
\* the first and the last are dropped and the others trimmed.
parseFeat(text) ==
    [i \in 1..(Len(text) - 2) |-> trim(text[i + 1])]

\* The handlers reentry puts on FEAT's reply: a[1] is parsed into _feat.
feat_onEnd(s, text) ==
    [s EXCEPT !.login.feat = [defined |-> TRUE, list |-> parseFeat(text)], !.login.text = text]

\* The stream ended after yielding (code, addr): getLast resolves, a for-await ends.
onEnd(s, r, code, addr) ==
    LET o == s.reqs[r].op
        c == s.reqs[r].cmd
    IN  IF c = "FEAT" THEN reentry(feat_onEnd(s, addr), code, o)
        ELSE IF c \in LoginCmds THEN reentry(s, code, o)
        ELSE IF s.ops[o].kind \in MkdirKinds THEN mkdir_onEnd(s, o, c)
        ELSE IF s.ops[o].kind = "listSafe" THEN listSafe_onEnd(s, o, c)
        ELSE IF s.ops[o].kind = "rmdir" THEN rmdir_loop(s, o)
        ELSE IF c = "RNFR" THEN _send(s, "RNTO", TRUE, o)
        ELSE IF c = "PASV" THEN pasvReentry(s, o, TRUE, addr)
        ELSE IF c = "MODE Z" THEN _send([s EXCEPT !.ops[o].ph = "data"], "LIST", TRUE, o)
        ELSE IF c = "LIST"
             THEN IF s.ops[o].replies = 2 THEN final(s, o) ELSE FailOp(s, o, "replies", 0)
        ELSE IF c = "PORT" THEN portAccepted(s, o)
        ELSE IF c = "ABOR" /\ s.ops[o].kind = "list"
             THEN IF s.ops[o].ph = "end" THEN _send(s, "", FALSE, 0)
                  ELSE FailOp(_send(s, "", FALSE, 0), o, "connect", 0)
        ELSE IF c \in Optional /\ code = 502 THEN on502(s, o, c)
        ELSE [s EXCEPT !.ops[o].res = "ok", !.ops[o].code = code, !.ops[o].ph = "end"]

\* The stream threw makeError(code, text).
onReject(s, r, code) ==
    LET o == s.reqs[r].op
        c == s.reqs[r].cmd
    IN  IF c \in LoginCmds
        THEN IF c = "FEAT" /\ code = 500 THEN reentry(s, code, o)
             ELSE loginRejects(s, o, code, "server")
        ELSE IF s.ops[o].kind \in MkdirKinds THEN mkdir_onReject(s, o, c, code)
        ELSE IF s.ops[o].kind = "listSafe" THEN listSafe_onReject(s, o, code)
        ELSE IF s.ops[o].kind = "rmdir" THEN rmdir_fail(s, o, code)
        ELSE IF c = "PASV" /\ s.active.portAddress
             THEN pasvOrPort([s EXCEPT !.active.usePort = TRUE], o)
        ELSE IF c = "ABOR" /\ s.ops[o].ph = "end" THEN s
        ELSE IF s.ops[o].kind = "list" THEN FailOp(s, o, "error", code)
        ELSE [s EXCEPT !.ops[o].res = "error", !.ops[o].code = code, !.ops[o].ph = "end"]

\* A reply loop that never finds its request finished.
IsLastNever(s) ==
    FALSE

\* isLast of _send's reply loop, read when the generator resumes.
IsLast(s) ==
    s.curReq = None

\* The promise job that resumes r's generator after its callback ran.
resume(s, r, code, addr) ==
    IF IsError(code) THEN onReject([s EXCEPT !.reqs[r].st = "failed"], r, code)
    ELSE IF IsLast(s)
         THEN onEnd(onValue([s EXCEPT !.reqs[r].st = "done"], r, code), r, code, addr)
         ELSE onValue(s, r, code)

\* ----------------------------------------------------------------- server

\* Has the server already sent a preliminary reply to request a?
HadPrelim(a) ==
    \E i \in 1..Len(reqs[a].sent) : Retval(reqs[a].sent[i]) = 1

Plain(codes) ==
    {[code |-> c, addr |-> "none"] : c \in codes}

\* The replies an RFC 959 server may give to the command it answers next: the
\* 227 reply carries an address, the control peer's own or another one.
Replies(a) ==
    IF a = NOOP THEN Plain({200})
    ELSE IF reqs[a].cmd = "PASV"
         THEN {[code |-> 227, addr |-> "same"], [code |-> 227, addr |-> "diff"]} \cup Plain({502})
    ELSE IF reqs[a].cmd = "LIST"
         THEN Plain((IF HadPrelim(a) THEN {} ELSE {150}) \cup {226, 550})
    ELSE IF reqs[a].cmd = "ABOR" THEN Plain({226, 502})
    ELSE IF reqs[a].cmd = "PWD" THEN Plain({257, 502})
    ELSE IF reqs[a].cmd \in {"SIZE", "MDTM"} THEN Plain({213, 502})
    ELSE IF reqs[a].cmd = "CDUP" THEN Plain({250, 502})
    ELSE IF reqs[a].cmd = "RNFR" THEN Plain({350, 550})
    ELSE IF reqs[a].cmd = "PORT" THEN Plain({200, 500})
    ELSE IF reqs[a].cmd = "MODE Z" THEN Plain({200, 504})
    ELSE IF reqs[a].cmd = "RNTO" THEN Plain({250, 503, 553})
    ELSE Plain({250, 550})

\* ---------------------------------------------------------------- actions

Init ==
    /\ socket = "open"
    /\ curReq = None
    /\ queue = <<>>
    /\ reqs = <<>>
    /\ keepalive = TRUE
    /\ ending = FALSE
    /\ pasvSocket = 0
    /\ ops = <<>>
    /\ micro = <<>>
    /\ srv = <<>>
    /\ dataOrder = <<>>
    /\ dir = <<"a">>
    /\ connected = TRUE
    /\ secure = "false"
    /\ login = LoggedIn
    /\ promise = [st |-> "resolved", code |-> 0, msg |-> ""]
    /\ emitted = [greeting |-> 1, ready |-> 1]
    /\ tree = [at |-> 0, exists |-> 0]
    /\ active = PassiveOnly
    /\ parser = Unfed
    /\ server = NoServer
    /\ stream = NoStream

\* May the user make another facade call?
CanCall ==
    micro = <<>> /\ socket = "open" /\ Len(ops) < MaxCalls

\* cwd(path): one command, appended to the queue.
Cwd ==
    /\ CanCall
    /\ Commit(_send([St EXCEPT !.ops = Append(@, NewOp("cmd"))], "CWD", FALSE, Len(ops) + 1))

\* What abort can be called with: nothing, true or false.
Immediate == {"undefined", "true", "false"}

\* JavaScript's Boolean() on these values, after the parameter's default
\* (immediate = true) has replaced undefined.
Boolean(v) ==
    IF v = "undefined" THEN TRUE ELSE v = "true"

\* A mistranslation of abort: ABOR is promoted whatever the argument.
abortPromotes(s, immediate) ==
    _send([s EXCEPT !.ops = Append(@, [NewOp("abort") EXCEPT !.arg = immediate])],
          "ABOR", TRUE, Len(s.ops) + 1)

\* abort(immediate): ABOR, promoted if Boolean(immediate).
abort(s, immediate) ==
    _send([s EXCEPT !.ops = Append(@, [NewOp("abort") EXCEPT !.arg = immediate])],
          "ABOR", Boolean(immediate), Len(s.ops) + 1)

\* abort(): ABOR, promoted.
Abort ==
    /\ CanCall
    /\ Commit(abort(St, "undefined"))

\* list(): _pasv chains the operation on this._pasvReady.
List ==
    /\ CanCall
    /\ LET k == Len(ops) + 1
           s1 == [St EXCEPT !.ops = Append(@, NewOp("list"))]
       IN  Commit(IF ChainReady(s1, k) THEN pasvOrPort(s1, k) ELSE s1)

\* end()
End ==
    /\ micro = <<>> /\ socket = "open"
    /\ Commit(IF queue # <<>> \/ curReq # None THEN [St EXCEPT !.ending = TRUE] ELSE _reset(St))

\* destroy()
Destroy ==
    /\ micro = <<>> /\ socket = "open"
    /\ Commit(_reset(St))

\* The control socket's "end" event: onend resets the session.
SocketEnd ==
    /\ micro = <<>> /\ socket = "open"
    /\ Commit(onend(St))

\* The server sends a reply to the oldest command a it holds, and is done with a
\* unless the reply is preliminary.  The histories record the reply as sent in
\* answer to a and as given to the request whose callback the handler will call.
Answered(s, code) ==
    LET a == Head(s.srv)
        s1 == [s EXCEPT !.srv = IF Retval(code) # 1 THEN Tail(@) ELSE @]
        s2 == IF a \in {NOOP, GREET} THEN s1 ELSE [s1 EXCEPT !.reqs[a].sent = Append(@, code)]
    IN  IF s.curReq \in {None, NOOP, GREET} THEN s2
        ELSE [s2 EXCEPT !.reqs[s.curReq].got = Append(@, [code |-> code, of |-> a])]

\* The server answers the oldest command it holds; the parser emits "response".
Response ==
    /\ micro = <<>> /\ socket # "none" /\ srv # <<>>
    /\ \E rep \in Replies(Head(srv)) :
          Commit(response(Answered(St, rep.code), rep.code, rep.addr))

\* The promise job resuming the generator whose callback just ran.
RunMicro ==
    /\ micro # <<>>
    /\ LET m == Head(micro)
       IN  Commit(resume([St EXCEPT !.micro = Tail(@)], m.r, m.code, m.addr))

\* The keepalive timer fires.
Keepalive ==
    /\ micro = <<>> /\ keepalive
    /\ Commit(donoop(St))

\* The data connection of operation o is established.
PasvConnected ==
    /\ micro = <<>>
    /\ \E o \in 1..Len(ops) : ops[o].ph = "conn" /\ Commit(pasvConnected(St, o))

\* The data connection attempt of operation o fails or times out.
PasvConnectFailed ==
    /\ micro = <<>>
    /\ \E o \in 1..Len(ops) : ops[o].ph = "conn" /\ Commit(pasvConnectFailed(St, o))

\* What the server lists for operation o: dir, or nothing for a sub-directory
\* that rmdir(path, true) descends into, which is empty.
Listed(o) ==
    IF ForRmdir(St, o) /\ ops[ops[o].parent].parent # 0 THEN <<>> ELSE dir

\* The server ends the data connection of operation o, after transferring the
\* directory if it got the data command: the socket's "data", "end" and "close"
\* events.
ServerClosesData(o) ==
    /\ ops[o].sock = "open"
    /\ LET listing == ops[o].ph \in {"data", "drain"}
           s1 == [St EXCEPT !.ops[o].sock = "closed",
                            !.ops[o].done = IF listing THEN TRUE ELSE @,
                            !.ops[o].buffer = IF listing THEN Listed(o) ELSE @,
                            !.pasvSocket = IF @ = o THEN 0 ELSE @]
       IN  Commit(IF ops[o].ph = "drain" THEN final(s1, o) ELSE s1)

DataEnd ==
    /\ micro = <<>>
    /\ \E o \in 1..Len(ops) : ServerClosesData(o)

Next ==
    \/ Cwd
    \/ Abort
    \/ List
    \/ End
    \/ Destroy
    \/ SocketEnd
    \/ Response
    \/ RunMicro
    \/ Keepalive
    \/ PasvConnected
    \/ PasvConnectFailed
    \/ DataEnd

Spec == Init /\ [][Next]_vars

\* ------------------------------------- listings from a server that cooperates

MaxLines == 2
MaxConnects == 1
MaxPort == 3

\* The directories the server may hold.
Dirs ==
    {d \in UNION {[1..n -> {"a", "b"}] : n \in 0..MaxLines} :
        \A i, j \in 1..Len(d) : i < j => d[i] # d[j]}

InitLists ==
    /\ socket = "open"
    /\ curReq = None
    /\ queue = <<>>
    /\ reqs = <<>>
    /\ keepalive = TRUE
    /\ ending = FALSE
    /\ pasvSocket = 0
    /\ ops = <<>>
    /\ micro = <<>>
    /\ srv = <<>>
    /\ dataOrder = <<>>
    /\ dir \in Dirs
    /\ connected = TRUE
    /\ secure = "false"
    /\ login = LoggedIn
    /\ promise = [st |-> "resolved", code |-> 0, msg |-> ""]
    /\ emitted = [greeting |-> 1, ready |-> 1]
    /\ tree = [at |-> 0, exists |-> 0]
    /\ active = PassiveOnly
    /\ parser = Unfed
    /\ server = NoServer
    /\ stream = NoStream

\* The replies of a server that accepts every command and advertises its own
\* address for the data connection.
GoodReplies(a) ==
    IF a = NOOP THEN Plain({200})
    ELSE IF reqs[a].cmd = "PASV" THEN {[code |-> 227, addr |-> "same"]}
    ELSE IF reqs[a].cmd = "LIST"
         THEN Plain((IF HadPrelim(a) THEN {} ELSE {150}) \cup {226})
    ELSE Plain({250})

GoodResponse ==
    /\ micro = <<>> /\ socket # "none" /\ srv # <<>>
    /\ \E rep \in GoodReplies(Head(srv)) :
          Commit(response(Answered(St, rep.code), rep.code, rep.addr))

\* The server transfers the listing and closes once it has the data command.
GoodDataEnd ==
    /\ micro = <<>>
    /\ \E o \in 1..Len(ops) : ops[o].ph \in {"data", "drain"} /\ ServerClosesData(o)

NextLists ==
    \/ List
    \/ GoodResponse
    \/ RunMicro
    \/ Keepalive
    \/ PasvConnected
    \/ GoodDataEnd

\* The server answers every command and serves every data connection; promise
\* jobs run.  The user and the keepalive timer are under no obligation.
SpecLists ==
    /\ InitLists /\ [][NextLists]_vars
    /\ WF_vars(GoodResponse) /\ WF_vars(RunMicro)
    /\ WF_vars(PasvConnected) /\ WF_vars(GoodDataEnd)

\* ------------------------------------------------- the optional commands
\*
\* SpecOptional is a ready session on which pwd(), cdup(), size(), lastMod()
\* and list() are called, against a server that may not implement a command.

\* pwd(), cdup(), size(path), lastMod(path): one command, appended to the queue.
CallOptional ==
    /\ CanCall
    /\ \E c \in Optional :
          Commit(_send([St EXCEPT !.ops = Append(@, NewOp(c))], c, FALSE, Len(ops) + 1))

NextOptional ==
    \/ CallOptional \/ List \/ Response \/ RunMicro \/ Keepalive
    \/ PasvConnected \/ PasvConnectFailed \/ DataEnd

SpecOptional == Init /\ [][NextOptional]_vars

\* ------------------------------------------------------------ mkdir -p
\*
\* SpecMkdir is a ready session on which mkdir("d1/d2", true) or
\* mkdir("/d1/d2", true) is called.  The server holds d1/../d<exists> under
\* the directory the path starts from and stands tree.at segments below it.

InitMkdir ==
    /\ socket = "open"
    /\ curReq = None
    /\ queue = <<>>
    /\ reqs = <<>>
    /\ keepalive = FALSE
    /\ ending = FALSE
    /\ pasvSocket = None
    /\ ops = <<>>
    /\ micro = <<>>
    /\ srv = <<>>
    /\ dataOrder = <<>>
    /\ dir = <<"a">>
    /\ connected = TRUE
    /\ secure = "false"
    /\ login = LoggedIn
    /\ promise = [st |-> "resolved", code |-> 0, msg |-> ""]
    /\ emitted = [greeting |-> 1, ready |-> 1]
    /\ tree \in [at : {0}, exists : 0..MaxSegs]
    /\ active = PassiveOnly
    /\ parser = Unfed
    /\ server = NoServer
    /\ stream = NoStream

\* The server runs the command it answers: its reply and its directories after.
Served(c) ==
    IF \E i \in 1..MaxSegs : c = "CWD " \o dirs[i]
    THEN LET i == CHOOSE j \in 1..MaxSegs : c = "CWD " \o dirs[j]
         IN  IF tree.at = i - 1 /\ i <= tree.exists
             THEN [code |-> 250, tree |-> [tree EXCEPT !.at = i]]
             ELSE [code |-> 550, tree |-> tree]
    ELSE IF \E i \in 1..MaxSegs : c = "MKD " \o dirs[i]
    THEN LET i == CHOOSE j \in 1..MaxSegs : c = "MKD " \o dirs[j]
         IN  IF tree.at = i - 1 /\ tree.exists = i - 1
             THEN [code |-> 257, tree |-> [tree EXCEPT !.exists = i]]
             ELSE [code |-> 550, tree |-> tree]
    ELSE IF c \in {"CWD /", "CWD owd"} THEN [code |-> 250, tree |-> [tree EXCEPT !.at = 0]]
    ELSE IF c = "PWD" THEN [code |-> 257, tree |-> tree]
    ELSE [code |-> 200, tree |-> tree]

\* mkdir(path, true): pwd() first.
Mkdir ==
    /\ CanCall
    /\ \E kind \in MkdirKinds :
          Commit(_send([St EXCEPT !.ops = Append(@, NewOp(kind))], "PWD", FALSE, Len(ops) + 1))

\* The server answers the oldest command it holds.
MkdirResponse ==
    /\ micro = <<>> /\ socket # "none" /\ srv # <<>>
    /\ LET a == Head(srv)
           rep == Served(IF a = NOOP THEN "NOOP" ELSE reqs[a].cmd)
       IN  Commit([response(Answered(St, rep.code), rep.code, "none") EXCEPT !.tree = rep.tree])

NextMkdir ==
    Mkdir \/ MkdirResponse \/ RunMicro \/ Keepalive

SpecMkdir == InitMkdir /\ [][NextMkdir]_vars

\* ------------------------------------------------------------- listSafe
\*
\* SpecListSafe is a ready session on which listSafe(path) is called.

ListSafe ==
    /\ CanCall
    /\ Commit(_send([St EXCEPT !.ops = Append(@, NewOp("listSafe"))], "PWD", FALSE, Len(ops) + 1))

NextListSafe ==
    \/ ListSafe \/ Response \/ RunMicro \/ Keepalive
    \/ PasvConnected \/ PasvConnectFailed \/ DataEnd

SpecListSafe == Init /\ [][NextListSafe]_vars

\* ------------------------------------------------------------- rmdir -r
\*
\* SpecRmdir is a ready session on which rmdir(path, true) is called once; the
\* directory holds up to MaxLines entries, its sub-directories are empty.

Entries ==
    UNION {[1..n -> {".", "..", "d", "f"}] : n \in 0..MaxLines}

InitRmdir ==
    /\ socket = "open"
    /\ curReq = None
    /\ queue = <<>>
    /\ reqs = <<>>
    /\ keepalive = FALSE
    /\ ending = FALSE
    /\ pasvSocket = None
    /\ ops = <<>>
    /\ micro = <<>>
    /\ srv = <<>>
    /\ dataOrder = <<>>
    /\ dir \in Entries
    /\ connected = TRUE
    /\ secure = "false"
    /\ login = LoggedIn
    /\ promise = [st |-> "resolved", code |-> 0, msg |-> ""]
    /\ emitted = [greeting |-> 1, ready |-> 1]
    /\ tree = [at |-> 0, exists |-> 0]
    /\ active = PassiveOnly
    /\ parser = Unfed
    /\ server = NoServer
    /\ stream = NoStream

\* rmdir(path, true)
Rmdir ==
    /\ micro = <<>> /\ socket = "open" /\ ops = <<>>
    /\ Commit(rmdir_list([St EXCEPT !.ops = Append(@, NewOp("rmdir"))], 1))

NextRmdir ==
    \/ Rmdir \/ Response \/ RunMicro \/ Keepalive
    \/ PasvConnected \/ PasvConnectFailed \/ DataEnd

SpecRmdir == InitRmdir /\ [][NextRmdir]_vars

\* --------------------------------------------------------------- rename
\*
\* SpecRename is a ready session on which rename() and cwd() are called.

\* rename(oldPath, newPath): RNFR, appended to the queue.
Rename ==
    /\ CanCall
    /\ Commit(_send([St EXCEPT !.ops = Append(@, NewOp("rename"))], "RNFR", FALSE, Len(ops) + 1))

NextRename ==
    Rename \/ Cwd \/ Response \/ RunMicro \/ Keepalive

SpecRename == Init /\ [][NextRename]_vars

\* ------------------------------------------------------- connect and login
\*
\* SpecLogin follows one connect() from the call to the end of the session:
\* the socket connects, the server greets and answers the login commands, the
\* TLS handshake completes, the socket fails or ends, and connTimeout passes.

Secure == {"false", "true"}

InitLogin ==
    /\ socket = "connecting"
    /\ curReq = None
    /\ queue = <<>>
    /\ reqs = <<>>
    /\ keepalive = FALSE
    /\ ending = FALSE
    /\ pasvSocket = None
    /\ ops = <<>>
    /\ micro = <<>>
    /\ srv = <<>>
    /\ dataOrder = <<>>
    /\ dir = <<"a">>
    /\ connected = FALSE
    /\ secure \in Secure
    /\ login = [cmd |-> "", doSignal |-> TRUE, timer |-> TRUE, secstate |-> "", chain |-> 0,
                elapsed |-> FALSE, tls |-> FALSE, wire |-> <<>>, feat |-> Undefined, text |-> <<>>]
    /\ promise = [st |-> "pending", code |-> 0, msg |-> ""]
    /\ emitted = [greeting |-> 0, ready |-> 0]
    /\ tree = [at |-> 0, exists |-> 0]
    /\ active = PassiveOnly
    /\ parser = Unfed
    /\ server = NoServer
    /\ stream = NoStream

\* The replies of an RFC 959 / RFC 4217 server to the greeting and to the
\* login commands (202 to PBSZ: "superfluous at this site").
LoginReplies(a) ==
    IF a = GREET THEN (IF emitted.greeting = 0 THEN {120} ELSE {}) \cup {220, 421}
    ELSE IF reqs[a].cmd = "USER" THEN {230, 331, 530}
    ELSE IF reqs[a].cmd = "PASS" THEN {230, 530}
    ELSE IF reqs[a].cmd = "FEAT" THEN {211, 500, 502}
    ELSE IF reqs[a].cmd = "TYPE I" THEN {200, 504}
    ELSE IF reqs[a].cmd \in {"AUTH TLS", "AUTH SSL"} THEN {234, 504}
    ELSE IF reqs[a].cmd = "PBSZ 0" THEN {200, 202, 503}
    ELSE {200, 536}

\* The socket's "connect" event; the server sends its greeting.
Connect ==
    /\ socket = "connecting"
    /\ Commit([onconnect(St) EXCEPT !.srv = <<GREET>>])

\* The texts of a 211 reply to FEAT, as the parser hands them on: the features
\* of RFC 2389, one to a line after a space, or a single line.
FeatTexts ==
    {<<<<"Features:">>, <<SP, "MLST">>, <<SP, "EPSV", SP>>, <<"End">>>>,
     <<<<"no-features">>>>}

\* The texts that may come with reply code to the command the server holds.
Texts(a, code) ==
    IF a # GREET /\ reqs[a].cmd = "FEAT" /\ code = 211 THEN FeatTexts ELSE {"none"}

\* The server answers the greeting or the login command it holds.
LoginResponse ==
    /\ micro = <<>> /\ socket \in {"open", "ended"} /\ srv # <<>>
    /\ \E code \in LoginReplies(Head(srv)) : \E text \in Texts(Head(srv), code) :
          Commit(response(Answered(St, code), code, text))

\* The TLS handshake over the control socket completes.
SecureConnect ==
    /\ micro = <<>> /\ socket = "handshake"
    /\ Commit(onconnect(St))

\* The socket fails: DNS lookup, connection refused, reset, handshake failure.
SocketError ==
    /\ micro = <<>> /\ socket \in {"connecting", "open", "handshake", "ended"}
    /\ Commit([onerror(St) EXCEPT !.socket = "dead"])

\* The socket's "end" / "close" event.
SocketClose ==
    /\ micro = <<>> /\ socket \in {"open", "handshake", "ended", "dead"}
    /\ Commit(onend(St))

\* connTimeout has passed since connect() and the session is not ready: the
\* timer fires unless it was cleared.
Elapse ==
    /\ micro = <<>> /\ ~login.elapsed /\ emitted.ready = 0
    /\ Commit(IF login.timer
              THEN ontimeout([St EXCEPT !.login.elapsed = TRUE, !.login.timer = FALSE])
              ELSE [St EXCEPT !.login.elapsed = TRUE])

NextLogin ==
    Connect \/ LoginResponse \/ RunMicro \/ SecureConnect \/ SocketError \/ SocketClose \/ Elapse

SpecLogin == InitLogin /\ [][NextLogin]_vars

\* SpecKeepalive is SpecLogin with the keepalive timer firing and the server
\* answering NOOP.
KeepaliveResponse ==
    /\ micro = <<>> /\ socket = "open" /\ srv # <<>> /\ Head(srv) = NOOP
    /\ Commit(response(Answered(St, 200), 200, "none"))

NextKeepalive ==
    \/ Connect
    \/ srv # <<>> /\ Head(srv) # NOOP /\ LoginResponse
    \/ RunMicro
    \/ SecureConnect
    \/ SocketError
    \/ SocketClose
    \/ Elapse
    \/ Keepalive
    \/ KeepaliveResponse

SpecKeepalive == InitLogin /\ [][NextKeepalive]_vars

\* SpecAuth is SpecLogin with a server that may also answer AUTH with 334
\* (RFC 2228: the mechanism is accepted, security data is to follow).
AuthReplies(a) ==
    IF a # GREET /\ reqs[a].cmd \in {"AUTH TLS", "AUTH SSL"} THEN {234, 334, 504}
    ELSE LoginReplies(a)

AuthResponse ==
    /\ micro = <<>> /\ socket \in {"open", "ended"} /\ srv # <<>>
    /\ \E code \in AuthReplies(Head(srv)) : \E text \in Texts(Head(srv), code) :
          Commit(response(Answered(St, code), code, text))

NextAuth ==
    Connect \/ AuthResponse \/ RunMicro \/ SecureConnect \/ SocketError \/ SocketClose \/ Elapse

SpecAuth == InitLogin /\ [][NextAuth]_vars

\* ----------------------------------------------------------------- abort
\*
\* SpecAbort is a ready session on which abort is called, with and without an
\* argument, between other commands.

AbortWith ==
    /\ CanCall
    /\ \E immediate \in Immediate : Commit(abort(St, immediate))

NextAbort ==
    AbortWith \/ Cwd \/ Response \/ RunMicro \/ Keepalive

SpecAbort == Init /\ [][NextAbort]_vars

\* ------------------------------------------------------- parsing replies
\*
\* SpecParser feeds the parser the text of up to MaxReplies replies, formed as
\* RFC 959 has them, in chunks cut anywhere.

Codes == {<<"2", "2", "0">>, <<"5", "5", "0">>}

Shapes == {"line", "lf", "multi", "padded"}

\* Replies as RFC 959 does not have them: several lines with one in between
\* that begins, unpadded, with another code; a line with a bare carriage return.
Unusual == {"foreign", "cr"}

\* The code that is not code.
Other(code) ==
    CHOOSE c \in Codes : c # code

\* The text of a reply: one line ended by CRLF or by LF alone; or several, the
\* first with a hyphen after the code, a line in between that begins with a
\* number being padded.
Text(r) ==
    LET last == r.code \o <<SP, "x", CR, LF>>
    IN  IF r.shape = "line" THEN last
        ELSE IF r.shape = "lf" THEN r.code \o <<SP, LF>>
        ELSE IF r.shape = "multi" THEN r.code \o <<"-", "x", CR, LF>> \o last
        ELSE IF r.shape = "padded"
             THEN r.code \o <<"-", CR, LF, SP>> \o r.code \o <<SP, "x", LF>> \o last
        ELSE IF r.shape = "foreign"
             THEN r.code \o <<"-", "x", CR, LF>> \o Other(r.code) \o <<SP, "x", CR, LF>> \o last
        ELSE r.code \o <<SP, "x", CR, "x", LF>>

\* The text of the first n replies of rs.
RECURSIVE Stream(_, _)
Stream(rs, n) ==
    IF n = 0 THEN <<>> ELSE Stream(rs, n - 1) \o Text(rs[n])

InitParser ==
    /\ socket = "open"
    /\ curReq = None
    /\ queue = <<>>
    /\ reqs = <<>>
    /\ keepalive = FALSE
    /\ ending = FALSE
    /\ pasvSocket = None
    /\ ops = <<>>
    /\ micro = <<>>
    /\ srv = <<>>
    /\ dataOrder = <<>>
    /\ dir = <<>>
    /\ connected = TRUE
    /\ secure = "false"
    /\ login = LoggedIn
    /\ promise = [st |-> "resolved", code |-> 0, msg |-> ""]
    /\ emitted = [greeting |-> 1, ready |-> 1]
    /\ tree = [at |-> 0, exists |-> 0]
    /\ active = PassiveOnly
    /\ \E n \in 1..MaxReplies :
          \E rs \in [1..n -> [code : Codes, shape : Shapes]] :
             parser = [Unfed EXCEPT !.replies = rs]
    /\ server = NoServer
    /\ stream = NoStream

\* The socket's next chunk, of any length, is written to the parser.
ParserWrite ==
    LET all == Stream(parser.replies, Len(parser.replies))
    IN  /\ \E n \in 1..(Len(all) - parser.pos) :
              parser' = _write(parser, SubSeq(all, parser.pos + 1, parser.pos + n))
        /\ UNCHANGED <<connection, server, stream>>

NextParser == ParserWrite

SpecParser == InitParser /\ [][NextParser]_vars

\* SpecFraming feeds the parser unusual replies among usual ones.
InitFraming ==
    /\ socket = "open"
    /\ curReq = None
    /\ queue = <<>>
    /\ reqs = <<>>
    /\ keepalive = FALSE
    /\ ending = FALSE
    /\ pasvSocket = None
    /\ ops = <<>>
    /\ micro = <<>>
    /\ srv = <<>>
    /\ dataOrder = <<>>
    /\ dir = <<>>
    /\ connected = TRUE
    /\ secure = "false"
    /\ login = LoggedIn
    /\ promise = [st |-> "resolved", code |-> 0, msg |-> ""]
    /\ emitted = [greeting |-> 1, ready |-> 1]
    /\ tree = [at |-> 0, exists |-> 0]
    /\ active = PassiveOnly
    /\ \E n \in 1..MaxReplies :
          \E rs \in [1..n -> [code : Codes, shape : {"line", "multi"} \cup Unusual]] :
             parser = [Unfed EXCEPT !.replies = rs]
    /\ server = NoServer
    /\ stream = NoStream

NextFraming == ParserWrite

SpecFraming == InitFraming /\ [][NextFraming]_vars

\* ----------------------------------------------------------- compression
\*
\* SpecCompress is a ready session on which list is called with and without
\* useCompression.

ListWith ==
    /\ CanCall
    /\ \E z \in BOOLEAN :
          LET k == Len(ops) + 1
              s1 == [St EXCEPT !.ops = Append(@, [NewOp("list") EXCEPT !.useCompression = z])]
          IN  Commit(IF ChainReady(s1, k) THEN pasvOrPort(s1, k) ELSE s1)

NextCompress ==
    ListWith \/ Response \/ RunMicro \/ Keepalive \/ PasvConnected \/ PasvConnectFailed \/ DataEnd

SpecCompress == Init /\ [][NextCompress]_vars

\* ---------------------------------------------------------- active mode
\*
\* SpecPort is a ready session with portAddress configured, plain or with
\* secure = true, on which list() is called.  The server connects to the
\* listener when it has accepted PORT, or, as RFC 959 has it, when it has
\* received the transfer command.

InitPort ==
    /\ socket = "open"
    /\ curReq = None
    /\ queue = <<>>
    /\ reqs = <<>>
    /\ keepalive = FALSE
    /\ ending = FALSE
    /\ pasvSocket = None
    /\ ops = <<>>
    /\ micro = <<>>
    /\ srv = <<>>
    /\ dataOrder = <<>>
    /\ dir = <<"a">>
    /\ connected = TRUE
    /\ secure \in Secure
    /\ login = LoggedIn
    /\ promise = [st |-> "resolved", code |-> 0, msg |-> ""]
    /\ emitted = [greeting |-> 1, ready |-> 1]
    /\ tree = [at |-> 0, exists |-> 0]
    /\ active \in [portAddress : {TRUE}, usePort : {FALSE}, onPort : BOOLEAN]
    /\ parser = Unfed
    /\ server = NoServer
    /\ stream = NoStream

\* The listener of operation o is listening.
Listening ==
    /\ micro = <<>>
    /\ \E o \in 1..Len(ops) : ops[o].ph = "listen" /\ Commit(listening(St, o))

\* The server has accepted the PORT of operation o and, if it waits for the
\* transfer command, has received it.
ServerConnects(o) ==
    /\ ops[o].sock = "listening"
    /\ \E r \in 1..Len(reqs) : reqs[r].op = o /\ reqs[r].cmd = "PORT" /\ (\E i \in 1..Len(reqs[r].sent) : reqs[r].sent[i] = 200)
    /\ \/ active.onPort
       \/ \E r \in 1..Len(reqs) : reqs[r].op = o /\ reqs[r].cmd = "LIST" /\ (\A i \in 1..Len(queue) : queue[i] # r)

\* The server connects to the listener.
PortConnected ==
    /\ micro = <<>>
    /\ \E o \in 1..Len(ops) : ServerConnects(o) /\ Commit(portConnected(St, o))

\* dataTimeout passes with no connection made, and none to come.
PortTimeout ==
    /\ micro = <<>>
    /\ \E o \in 1..Len(ops) :
          /\ ops[o].sock = "listening" /\ ~ServerConnects(o) /\ srv = <<>>
          /\ \E r \in 1..Len(reqs) : reqs[r].op = o /\ reqs[r].cmd = "PORT" /\ reqs[r].sent # <<>>
          /\ Commit(portTimedOut(St, o))

NextPort ==
    \/ List \/ Response \/ RunMicro \/ Keepalive \/ PasvConnected \/ PasvConnectFailed
    \/ Listening \/ PortConnected \/ PortTimeout \/ DataEnd

SpecPort == InitPort /\ [][NextPort]_vars

\* ------------------------------------------------------------- reconnect
\*
\* SpecReconnect is a plaintext session, ready, with portAddress configured
\* and a feature list, that is used, destroyed while idle and connected again
\* with the same options.

InitReconnect ==
    /\ socket = "open"
    /\ curReq = None
    /\ queue = <<>>
    /\ reqs = <<>>
    /\ keepalive = FALSE
    /\ ending = FALSE
    /\ pasvSocket = None
    /\ ops = <<>>
    /\ micro = <<>>
    /\ srv = <<>>
    /\ dataOrder = <<>>
    /\ dir = <<"a">>
    /\ connected = TRUE
    /\ secure = "false"
    /\ login = [LoggedIn EXCEPT !.feat = [defined |-> TRUE, list |-> <<<<"MLST">>>>]]
    /\ promise = [st |-> "resolved", code |-> 0, msg |-> ""]
    /\ emitted = [greeting |-> 1, ready |-> 1]
    /\ tree = [at |-> 0, exists |-> 0]
    /\ active = [portAddress |-> TRUE, usePort |-> FALSE, onPort |-> TRUE]
    /\ parser = Unfed
    /\ server = NoServer
    /\ stream = NoStream

\* connect(options): a new promise, the options, a new closure and a new
\* socket; the fields of the object are left as they are.
connect(s) ==
    [s EXCEPT !.socket = "connecting", !.connected = FALSE,
              !.login = [cmd |-> "", doSignal |-> TRUE, timer |-> TRUE, secstate |-> @.secstate,
                         chain |-> 0, elapsed |-> FALSE, tls |-> FALSE, wire |-> <<>>,
                         feat |-> @.feat, text |-> <<>>],
              !.promise = [st |-> "pending", code |-> 0, msg |-> ""],
              !.emitted = [greeting |-> 0, ready |-> 0]]

\* The logins started so far on this object.
Logins ==
    {i \in 1..Len(reqs) : reqs[i].cmd = "USER"}

\* connect() is called on the session that was reset.
ConnectAgain ==
    /\ micro = <<>> /\ socket = "none" /\ Cardinality(Logins) < MaxConnects
    /\ Commit(connect(St))

\* The session is ready: connect has resolved.
Ready ==
    ~login.doSignal /\ promise.st = "resolved"

\* No operation is under way.
Idle ==
    \A o \in 1..Len(ops) : ops[o].res # "pending"

NextReconnect ==
    \/ Ready /\ List
    \/ Ready /\ Response
    \/ RunMicro
    \/ PasvConnected
    \/ Listening
    \/ PortConnected
    \/ DataEnd
    \/ Ready /\ Idle /\ Destroy
    \/ ConnectAgain
    \/ Connect
    \/ ~Ready /\ LoginResponse

SpecReconnect == InitReconnect /\ [][NextReconnect]_vars

\* ------------------------------------------------------------ port ranges
\*
\* SpecRange is createServer alone, for ranges whose ends are small or near
\* the greatest port number, and for every set of ports that cannot be bound.

\* The numbers a range is made of.
PortValues ==
    0..MaxPort \cup (MaxPortNumber - 1)..(MaxPortNumber + 1)

InitRange ==
    /\ socket = "none"
    /\ curReq = None
    /\ queue = <<>>
    /\ reqs = <<>>
    /\ keepalive = FALSE
    /\ ending = FALSE
    /\ pasvSocket = None
    /\ ops = <<>>
    /\ micro = <<>>
    /\ srv = <<>>
    /\ dataOrder = <<>>
    /\ dir = <<"a">>
    /\ connected = FALSE
    /\ secure = "false"
    /\ login = LoggedIn
    /\ promise = [st |-> "resolved", code |-> 0, msg |-> ""]
    /\ emitted = [greeting |-> 1, ready |-> 1]
    /\ tree = [at |-> 0, exists |-> 0]
    /\ active = [portAddress |-> TRUE, usePort |-> TRUE, onPort |-> TRUE]
    /\ parser = Unfed
    /\ \E a \in PortValues, b \in PortValues :
          \E busy \in SUBSET (PortValues \cap 1..MaxPortNumber) :
             server = createServer(a, b, busy)
    /\ stream = NoStream

\* The port is bound: 'listening' resolves the promise with the listener.
ServerListening ==
    /\ server.st = "binding" /\ server.port \notin server.busy
    /\ server' = [server EXCEPT !.st = "listening"]
    /\ UNCHANGED <<connection, parser, stream>>

\* The port cannot be bound: 'error'.
ServerError ==
    /\ server.st = "binding" /\ server.port \in server.busy
    /\ server' = errf(server)
    /\ UNCHANGED <<connection, parser, stream>>

NextRange ==
    \/ ServerListening
    \/ ServerError

SpecRange == InitRange /\ [][NextRange]_vars

\* ---------------------------------------------------------- reply streams
\*
\* SpecStream is LIST written and its stream being read; the server's replies
\* come in one chunk or in two, and another command may be called meanwhile.

\* The preliminary and the final replies of a transfer command.
Preliminary == {125, 150}
Final == {226, 250, 426, 550}

\* What the server answers LIST with: a final reply, after a preliminary one
\* or not.
ListAnswers ==
    {<<f>> : f \in Final} \cup {<<p, f>> : p \in Preliminary, f \in Final}

\* The ways the socket may deliver an answer.
Cuts(all) ==
    IF Len(all) = 1 THEN {<<all>>} ELSE {<<all>>, <<<<all[1]>>, <<all[2]>>>>}

InitStream ==
    /\ socket = "open"
    /\ curReq = None
    /\ queue = <<>>
    /\ reqs = <<>>
    /\ keepalive = FALSE
    /\ ending = FALSE
    /\ pasvSocket = None
    /\ ops = <<>>
    /\ micro = <<>>
    /\ srv = <<>>
    /\ dataOrder = <<>>
    /\ dir = <<"a">>
    /\ connected = TRUE
    /\ secure = "false"
    /\ login = LoggedIn
    /\ promise = [st |-> "resolved", code |-> 0, msg |-> ""]
    /\ emitted = [greeting |-> 1, ready |-> 1]
    /\ tree = [at |-> 0, exists |-> 0]
    /\ active = [portAddress |-> FALSE, usePort |-> FALSE, onPort |-> TRUE]
    /\ parser = Unfed
    /\ server = NoServer
    /\ \E all \in ListAnswers : \E cut \in Cuts(all) :
          stream = [NoStream EXCEPT !.all = all, !.chunks = Len(cut), !.input = cut,
                                    !.curReq = "LIST", !.res = TRUE, !.pending = TRUE,
                                    !.out = "pending"]

\* The socket's 'data' event: Parser._write matches the first reply of the
\* chunk and emits it.
StreamData ==
    /\ stream.jobs = <<>> /\ stream.input # <<>>
    /\ LET c == Head(stream.input)
           st == [stream EXCEPT !.input = Tail(@), !.chunk = Tail(c)]
       IN  stream' = [onResponse(st, Head(c)) EXCEPT !.jobs = Append(@, "write")]
    /\ UNCHANGED <<connection, parser, server>>

\* The next promise job runs.
StreamJob ==
    /\ stream.jobs # <<>>
    /\ stream' = runJob([stream EXCEPT !.jobs = Tail(@)], Head(stream.jobs))
    /\ UNCHANGED <<connection, parser, server>>

\* Another command is called: it is queued behind LIST, or written at once.
StreamCall ==
    /\ stream.jobs = <<>> /\ ~stream.called
    /\ stream' = sendQueued([stream EXCEPT !.called = TRUE, !.queued = TRUE])
    /\ UNCHANGED <<connection, parser, server>>

NextStream ==
    \/ StreamData
    \/ StreamJob
    \/ StreamCall

SpecStream == InitStream /\ [][NextStream]_vars

\* ------------------------------------------------------------------ claims

Range(q) ==
    {q[i] : i \in 1..Len(q)}

\* Request r is written to the control socket in this step.
Written(r) ==
    r \in Range(srv') /\ r \notin Range(srv)

\* The callback of request r is given a reply in this step, and the reply's code.
Delivered(r) ==
    Len(reqs'[r].got) = Len(reqs[r].got) + 1

LastCode(r) ==
    reqs'[r].got[Len(reqs'[r].got)].code

\* The replies request r's callback has been given that end a request.
Outcomes(r) ==
    {i \in 1..Len(reqs[r].got) : Retval(reqs[r].got[i].code) # PRELIM}

DataOps ==
    {o \in 1..Len(ops) : ops[o].kind = "list"}

\* C1: in every reachable state at most one command has been written to the
\* control socket without its terminating reply having been received.
C1_AtMostOneInFlight ==
    Len(srv) <= 1

\* C2: commands are written in the order they were enqueued, except that a
\* promoted request goes before the requests not yet sent (when a request is
\* written, whatever older request is still queued was overtaken by a promoted
\* one, and no promoted request enqueued before this step is left behind it);
\* and a promoted request is not written before the terminating reply of the
\* request that was in flight when it was enqueued.
C2_FifoExceptPromoted ==
    [][\A r \in 1..Len(reqs') : Written(r) =>
          /\ \A i \in 1..Len(queue') :
                /\ queue'[i] < r => reqs'[r].promote
                /\ queue'[i] > r /\ queue'[i] <= Len(reqs) => ~reqs'[queue'[i]].promote
          /\ r <= Len(reqs) /\ reqs[r].behind # None => reqs[r].behind \notin Range(srv')]_vars

\* C3: once the terminating 2xx/3xx reply of a request has been handled, its
\* reply stream has yielded the reply and ended, whether or not other requests
\* were queued behind it; a facade call made of that one command has resolved
\* with the reply.
C3_StreamEndsOnTerminatingReply ==
    \A r \in 1..Len(reqs) :
       micro = <<>> /\ (\E i \in Outcomes(r) : ~IsError(reqs[r].got[i].code)) =>
          /\ reqs[r].st = "done"
          /\ ops[reqs[r].op].kind \in {"cmd", "abort"} => ops[reqs[r].op].res = "ok"

\* C4: every request placed in the queue gets exactly one terminating outcome
\* through its callback: never two, and never none once the session has been
\* reset.
C4_ExactlyOneOutcome ==
    \A r \in 1..Len(reqs) :
       /\ Cardinality(Outcomes(r)) <= 1
       /\ socket = "none" => Cardinality(Outcomes(r)) = 1

\* C5: the replies given to a request's callback are exactly the replies the
\* server sent in answer to that request, in order.
C5_RepliesReachTheirCommand ==
    \A r \in 1..Len(reqs) :
       reqs[r].got = [i \in 1..Len(reqs[r].sent) |-> [code |-> reqs[r].sent[i], of |-> r]]


\* C6: a 1xx reply is given to the request in flight (the one held in _curReq)
\* without clearing it and without writing anything; the terminating reply of a
\* request that first got a 1xx clears it and writes the next queued request.
C6_PrelimKeepsInFlight ==
    [][\A r \in 1..Len(reqs) : Delivered(r) =>
          IF Retval(LastCode(r)) = PRELIM
          THEN curReq = r /\ curReq' = r /\ queue' = queue /\ srv' = srv
          ELSE (\E i \in 1..Len(reqs[r].got) : Retval(reqs[r].got[i].code) = PRELIM) =>
                  /\ curReq = r /\ curReq' # r
                  /\ queue = <<>> => curReq' = None
                  /\ queue # <<>> =>
                        curReq' = Head(queue) /\ queue' = Tail(queue) /\ Written(Head(queue))]_vars

\* A request got a 1xx and then its terminating reply, and the request queued
\* behind it has just been written.
C6_Witness ==
    \E r \in 1..Len(reqs) :
       /\ Len(reqs[r].got) = 2
       /\ Retval(reqs[r].got[1].code) = PRELIM
       /\ micro # <<>> /\ Head(micro).r = r /\ Head(micro).code = reqs[r].got[2].code
       /\ curReq \notin {None, NOOP, r}

\* A 4xx/5xx reply is handled with request r in flight (held in _curReq): r
\* alone is failed with the reply's code, the queue behind it keeps its order and
\* its head is written.  session says what becomes of the session.
ErrorReplyHandled(r, session) ==
    Delivered(r) /\ IsError(LastCode(r)) =>
       /\ curReq = r
       /\ micro' = <<[r |-> r, code |-> LastCode(r), addr |-> "none"]>>
       /\ \A q \in (1..Len(reqs)) \ {r} : reqs'[q].got = reqs[q].got
       /\ queue # <<>> =>
             curReq' = Head(queue) /\ queue' = Tail(queue) /\ Written(Head(queue))
       /\ session

\* The rejection of r reaches its consumer: r's call, and no other, fails with an
\* error carrying the reply's code.
ErrorReplySettles ==
    (micro # <<>> /\ micro' = <<>> /\ IsError(Head(micro).code)) =>
       LET r == Head(micro).r
           o == reqs[r].op
       IN  /\ reqs'[r].st = "failed"
           /\ \A q \in (1..Len(reqs)) \ {r} : reqs'[q].st = reqs[q].st
           /\ ops'[o].res = "error" /\ ops'[o].code = Head(micro).code
           /\ \A k \in (1..Len(ops)) \ {o} : ops'[k].res = ops[k].res

\* C7 as stated: a 4xx/5xx reply fails the request in flight, and only that one,
\* with an error whose code is the reply's code; the requests queued behind it
\* keep their order, the next one is written, and the session stays connected.
C7_ErrorFailsOnlyInFlight ==
    [][/\ \A r \in 1..Len(reqs) : ErrorReplyHandled(r, socket' = socket)
       /\ ErrorReplySettles]_vars

\* C7 amended: as C7, but the session stays connected unless end() was called
\* before and nothing is left queued, when the session is reset as end() asked.
C7_ErrorFailsOnlyInFlightUnlessEnding ==
    [][/\ \A r \in 1..Len(reqs) :
             ErrorReplyHandled(r, IF ending /\ queue = <<>>
                                  THEN socket' = "none"
                                  ELSE socket' = socket /\ ending' = ending)
       /\ ErrorReplySettles]_vars

\* A request was failed by a 5xx reply, its call rejected with that code, and the
\* request queued behind it was written, in a session still connected.
C7_Witness ==
    \E r \in 1..Len(reqs) :
       /\ reqs[r].st = "failed"
       /\ ops[reqs[r].op].res = "error" /\ IsError(ops[reqs[r].op].code)
       /\ micro = <<>>
       /\ socket = "open"
       /\ curReq \notin {None, NOOP, r} /\ curReq > r /\ ~reqs[curReq].promote

\* The keepalive timer fires in this step.
TimerFires ==
    micro = <<>> /\ keepalive /\ St' = donoop(St)

\* C8: a keepalive NOOP is written only when the request queue is empty and no
\* request is in flight (_curReq is unset); when the timer fires in any other
\* state, no NOOP is written and the timer is re-armed.
C8_NoopOnlyWhenIdle ==
    [][TimerFires =>
          IF curReq = None /\ queue = <<>>
          THEN srv' \in {srv, Append(srv, NOOP)}
          ELSE srv' = srv /\ keepalive']_vars

\* A keepalive NOOP was written in an idle session, after earlier requests, and
\* is in flight.
C8_Witness ==
    /\ curReq = NOOP
    /\ srv = <<NOOP>>
    /\ Len(reqs) > 0

\* C9: the negotiation of a data operation has not started while the data socket
\* of an earlier data operation is still up.
C9_PreviousSocketTornDown ==
    \A i, j \in DataOps :
       i < j /\ ops[j].ph # "chained" => ops[i].sock # "open"

\* C10: the data commands are written in the order of their facade calls, and
\* none is written before every earlier data operation has settled.
C10_DataOpsInCallOrder ==
    /\ \A a, b \in 1..Len(dataOrder) : a < b => dataOrder[a] < dataOrder[b]
    /\ \A j \in Range(dataOrder) : \A i \in DataOps : i < j => ops[i].freed

\* Two data operations have both had their data command written.
C10_Witness ==
    Len(dataOrder) = 2

\* ------------------------------------------- a session that is only ever ended

\* The user makes calls until end() is called, and none after it; the session
\* is neither destroyed nor dropped by the server.
CallBeforeEnd ==
    ~ending /\ (Cwd \/ Abort \/ List)

NextDrain ==
    \/ CallBeforeEnd
    \/ End
    \/ Response
    \/ RunMicro
    \/ Keepalive
    \/ PasvConnected
    \/ PasvConnectFailed
    \/ DataEnd

SpecDrain == Init /\ [][NextDrain]_vars

\* The requests made for facade call o.
ReqsOf(o) ==
    {r \in 1..Len(reqs) : reqs[r].op = o}

\* C12: once end() has closed the control connection, every command of every
\* operation started before end() has been sent and answered: a one-command
\* call got its reply, a list() has settled.
C12_EndWaitsForOperations ==
    socket = "none" /\ micro = <<>> =>
       \A o \in 1..Len(ops) :
          IF ops[o].kind = "list" THEN ops[o].res # "pending"
          ELSE \A r \in ReqsOf(o) : Outcomes(r) # {}

\* C13: destroy() leaves the queue empty, no request in flight, connected false
\* and the keepalive timer cancelled, whatever was pending; and once the session
\* has been torn down nothing more is written to its control socket, which
\* stays closed.
C13_DestroyTearsDown ==
    [][/\ Destroy =>
             /\ queue' = <<>> /\ curReq' = None
             /\ ~connected' /\ ~keepalive'
             /\ socket' = "none"
       /\ socket = "none" =>
             /\ socket' = "none"
             /\ srv' = srv
             /\ \A r \in 1..Len(reqs') : ~Written(r)]_vars

\* The session was torn down with a request unanswered, and work went on after
\* it: a request made since then waits in the queue.
C13_Witness ==
    /\ socket = "none" /\ ~connected /\ ~keepalive
    /\ \E r \in 1..Len(reqs) : reqs[r].got = <<>> /\ r \notin Range(queue)
    /\ queue # <<>>

\* The LIST request of data operation o, if it was made.
ListReqs(o) ==
    {r \in 1..Len(reqs) : reqs[r].op = o /\ reqs[r].cmd = "LIST"}

\* C11: list() calls made without waiting for one another, to a server that
\* answers every command and serves every data connection, all resolve; the
\* LIST of a later call is written only after the 226 of the earlier one was
\* received; and the calls resolve with the same entries, the directory's.
C11_ConcurrentListsResolve ==
    /\ [](\A i, j \in DataOps : i < j /\ j \in Range(dataOrder) =>
             \E r \in ListReqs(i) : \E k \in 1..Len(reqs[r].got) : reqs[r].got[k].code = 226)
    /\ [](\A i \in DataOps : ops[i].res = "ok" => ops[i].entries = dir)
    /\ <>[](\A o \in 1..Len(ops) : ops[o].res = "ok")

\* Two list() calls have resolved, with the lines of a directory that has some.
C11_Witness ==
    /\ Len(ops) = 2
    /\ ops[1].res = "ok" /\ ops[2].res = "ok"
    /\ dir # <<>> /\ ops[1].entries = ops[2].entries
    /\ dataOrder = <<1, 2>>

\* The replies the server has given to the login command c.
Answers(c) ==
    UNION {Range(reqs[r].sent) : r \in {q \in 1..Len(reqs) : reqs[q].cmd = c}}

\* C14: a plaintext session that becomes ready has written exactly USER, then
\* PASS (left out if and only if USER was answered 230), then FEAT, then
\* TYPE I, each after the terminating reply of the one before; "greeting" is
\* emitted exactly once, before USER is written; "ready" is emitted and connect
\* resolves exactly once, and only after a 2xx reply to TYPE I.
C14_PlaintextLoginSequence ==
    secure = "false" =>
       /\ Len(srv) <= 1
       /\ emitted.greeting <= 1
       /\ login.wire # <<>> => emitted.greeting = 1
       /\ promise.st = "resolved" => emitted.ready = 1
       /\ emitted.ready >= 1 =>
             /\ emitted.ready = 1
             /\ promise.st = "resolved"
             /\ login.wire = (IF 230 \in Answers("USER")
                              THEN <<"USER", "FEAT", "TYPE I">>
                              ELSE <<"USER", "PASS", "FEAT", "TYPE I">>)
             /\ \E code \in Answers("TYPE I") : Retval(code) = OK

\* The control connection has been upgraded to TLS.
Upgraded ==
    login.secstate # "" /\ login.tls

\* After the upgrade the commands go out in the order PBSZ 0, PROT P, USER, each
\* after a 200 to the one before, and AUTH is not among them.
SecuredOrder ==
    LET w == login.wire
    IN  /\ Len(w) >= 2 /\ w[1] = "AUTH TLS" /\ w[2] = "PBSZ 0"
        /\ Len(w) >= 3 => w[3] = "PROT P" /\ 200 \in Answers("PBSZ 0")
        /\ Len(w) >= 4 => w[4] = "USER" /\ 200 \in Answers("PROT P")
        /\ \A i \in 2..Len(w) : w[i] \notin {"AUTH TLS", "AUTH SSL"}
        /\ \A i \in 1..Len(w) : w[i] = "USER" => i = 4

\* The replies other than 200 the server gave to PBSZ or PROT.
Refusals ==
    (Answers("PBSZ 0") \cup Answers("PROT P")) \ {200}

LoginErrors ==
    {code \in UNION {Answers(c) : c \in {"USER", "PASS", "TYPE I", "PBSZ 0", "PROT P"}} :
        IsError(code)}

\* C16: once a login command was answered 4xx/5xx, connect is rejected with an
\* error carrying that reply's code, and "ready" is not emitted.
C16_LoginErrorRejectsConnect ==
    micro = <<>> =>
       \A code \in LoginErrors :
          /\ promise.st = "rejected" /\ promise.code = code
          /\ emitted.ready = 0

\* connect()'s promise is rejected in this step, with this message.
RejectsWith(msg) ==
    promise'.st = "rejected" /\ promise'.msg = msg

\* C17: a fatal cause before "ready" (a socket error, connTimeout elapsing,
\* the socket ending or closing, an error reply during login) rejects the
\* pending connect() with that cause; the promise settles once, resolves only
\* with "ready", and is not touched after "ready".
C17_ConnectRejectsOnceWithFirstCause ==
    [][/\ promise.st # "pending" => promise' = promise
       /\ promise'.st = "resolved" => emitted'.ready = 1
       /\ promise.st = "pending" /\ emitted.ready = 0 =>
             /\ SocketError => RejectsWith("socket error")
             /\ SocketClose => RejectsWith("End before ready")
             /\ Elapse => RejectsWith("Timeout while connecting to server")
             /\ micro' = <<>> /\ LoginErrors' # {} => promise'.st = "rejected"]_vars

\* The command that stands in for an optional command the server lacks.
Substitute(o, c) ==
    IF c = "PWD" THEN \E r \in ReqsOf(o) : reqs[r].cmd = "CWD ."
    ELSE IF c = "CDUP" THEN \E r \in ReqsOf(o) : reqs[r].cmd = "CWD .."
    ELSE \E r \in ReqsOf(o) : reqs[r].cmd = "PASV"

\* C18: once PWD, CDUP, SIZE or MDTM was answered 502, the operation has not
\* rejected but has sent its substitute: CWD . for pwd(), CWD .. for cdup(),
\* a listing for size() and lastMod().
C18_FallbackOn502 ==
    micro = <<>> =>
       \A r \in 1..Len(reqs) :
          reqs[r].cmd \in Optional /\ 502 \in Range(reqs[r].sent) =>
             /\ ops[reqs[r].op].res # "error"
             /\ Substitute(reqs[r].op, reqs[r].cmd)

\* C19: a facade call does not write PWD, CDUP, SIZE, MDTM or PASV once the
\* server has answered that command with 502 in this session.
C19_UnsupportedNotRetried ==
    [][Len(ops') > Len(ops) =>
          \A r \in (Len(reqs) + 1)..Len(reqs') :
             Written(r) /\ reqs'[r].cmd \in Optional \cup {"PASV"} =>
                502 \notin Answers(reqs'[r].cmd)]_vars

\* The requests of operation o that sent command c.
Sent(o, c) ==
    {r \in ReqsOf(o) : reqs[r].cmd = c}

\* C20: mkdir(path, true) sends CWD / first for an absolute path, walks the
\* segments with CWD once each, answers the first 550 with MKD and CWD of that
\* segment and of every later one, sends no MKD for a segment that exists, and
\* resolves: it does not reject, and when it has resolved every segment exists.
C20_MkdirRecursive ==
    micro = <<>> =>
       \A o \in 1..Len(ops) :
          ops[o].kind \in MkdirKinds =>
             /\ ops[o].kind = "mkdir/" =>
                   \A r \in ReqsOf(o) : reqs[r].cmd = "PWD" \/ \E q \in Sent(o, "CWD /") : q <= r
             /\ \A i \in 1..MaxSegs :
                   /\ Cardinality(Sent(o, "CWD " \o dirs[i])) <= 1 + Cardinality(Sent(o, "MKD " \o dirs[i]))
                   /\ \A r \in Sent(o, "CWD " \o dirs[i]) :
                         550 \in Range(reqs[r].sent) => Sent(o, "MKD " \o dirs[i]) # {}
             /\ ops[o].res # "error"
             /\ ops[o].res = "ok" => tree.exists = MaxSegs

\* The requests of operation o and of the listing it started.
FamilyReqs(o) ==
    {r \in 1..Len(reqs') : reqs'[r].op = o \/ (reqs'[r].op > 0 /\ ops'[reqs'[r].op].parent = o)}

\* The restoring CWD of operation o has been written before this step.
Restoring(o) ==
    \E q \in 1..Len(reqs) : reqs[q].op = o /\ reqs[q].cmd = "CWD owd" /\ q \notin Range(queue)

\* C21: the last command listSafe(path) or mkdir(path, true) causes to be
\* written is the CWD back to the directory PWD returned: once that CWD is
\* written, no other command of the operation is, whether or not an inner
\* command failed; and the operation settles only after the CWD was answered.
C21_RestoresWorkingDirectoryLast ==
    [][\A o \in 1..Len(ops) :
          ops[o].kind \in MkdirKinds \cup {"listSafe"} =>
             /\ Restoring(o) => \A r \in FamilyReqs(o) : ~Written(r)
             /\ ops'[o].res = "ok" \/ ops'[o].ph = "restored" =>
                   \E q \in 1..Len(reqs') :
                      reqs'[q].op = o /\ reqs'[q].cmd = "CWD owd" /\ Outcomes(q)' # {}]_vars

\* C22: the LIST of listSafe(path) is written while the working directory is
\* path: after PWD and CWD path were answered, and not once the restoring CWD
\* has been written.
C22_ListSafeListsInsidePath ==
    [][\A r \in 1..Len(reqs') :
          /\ Written(r) /\ reqs'[r].cmd \in {"PASV", "LIST"}
          /\ ops'[reqs'[r].op].parent # 0
          => LET o == ops'[reqs'[r].op].parent
             IN  /\ \E q \in 1..Len(reqs) : reqs[q].op = o /\ reqs[q].cmd = "CWD path" /\ Outcomes(q) # {}
                 /\ ~Restoring(o)
                 /\ \A q \in 1..Len(reqs') :
                       reqs'[q].op = o /\ reqs'[q].cmd = "CWD owd" => ~Written(q)]_vars

\* C23: when rmdir(path, true) has resolved, RMD path has been sent and
\* answered, for path and for every sub-directory it descended into; every
\* file listed was deleted, and nothing was sent for "." and "..".
C23_RmdirRemovesDirectory ==
    \A o \in 1..Len(ops) :
       ops[o].kind = "rmdir" /\ ops[o].res = "ok" =>
          /\ \E r \in ReqsOf(o) : reqs[r].cmd = "RMD" /\ Outcomes(r) # {}
          /\ LET list == ops[ListingOf(St, o)].entries
             IN  Cardinality(Sent(o, "DELE")) = Cardinality({i \in 1..Len(list) : list[i] = "f"})

\* rename operation o has had RNFR written, RNFR is not refused, by this step
\* either, and RNTO is still to be written.
BetweenRnfrAndRnto(o) ==
    /\ ops[o].kind = "rename" /\ ops[o].res = "pending"
    /\ \E q \in Sent(o, "RNFR") :
          /\ q \notin Range(queue)
          /\ \A k \in 1..Len(reqs'[q].got) : ~IsError(reqs'[q].got[k].code)
    /\ \A q \in Sent(o, "RNTO") : q \in Range(queue)

\* C24: once the RNFR of a rename is written, the next command written to the
\* control socket is its RNTO, whatever else is queued; and rename resolves
\* only after RNTO was answered.
C24_RntoFollowsRnfr ==
    [][\A o \in 1..Len(ops) :
          /\ BetweenRnfrAndRnto(o) =>
                \A r \in {NOOP} \cup 1..Len(reqs') :
                   Written(r) => r # NOOP /\ reqs'[r].op = o /\ reqs'[r].cmd = "RNTO"
          /\ ops'[o].kind = "rename" /\ ops'[o].res = "ok" =>
                \E q \in 1..Len(reqs') :
                   reqs'[q].op = o /\ reqs'[q].cmd = "RNTO" /\ Outcomes(q)' # {}]_vars

\* The commands of operation o, other than c, that the server refused.
RefusedBut(o, c) ==
    {r \in ReqsOf(o) : reqs[r].cmd # c /\ \E i \in 1..Len(reqs[r].sent) : IsError(reqs[r].sent[i])}

\* The operations whose PASV the server refused, and nothing else of theirs.
PasvRefused ==
    {o \in DataOps : RefusedBut(o, "") # {} /\ RefusedBut(o, "PASV") = {}}

\* C25: with portAddress configured, a data operation whose PASV is refused
\* goes on in active mode (a listener, then PORT) and does not fail when the
\* server refuses nothing else: it completes once the server has connected.
C25_PortFallbackSucceeds ==
    active.portAddress =>
       \A o \in PasvRefused :
          /\ ops[o].res \in {"pending", "ok"}
          /\ ops[o].ph = "end" => Sent(o, "PORT") # {}

\* C29: with secure = true every data socket handed to a transfer is wrapped
\* in TLS, whether the connection was made to the server (PASV) or accepted
\* from it (PORT).
C29_DataSocketsWrapped ==
    secure = "true" =>
       \A o \in DataOps : Sent(o, "LIST") # {} => ops[o].tls

\* The ABOR requests that abort enqueues in this step and that are not
\* written at once, with the argument abort was given in Args.
QueuedAbor(Args) ==
    {r \in Range(queue') :
        /\ r > Len(reqs)
        /\ reqs'[r].cmd = "ABOR"
        /\ ops'[reqs'[r].op].kind = "abort" /\ ops'[reqs'[r].op].arg \in Args}

\* C26 as stated: whatever abort is called with, false included, its ABOR is
\* put at the front of the queue, ahead of every request not yet sent.
C26_AbortAlwaysPromotes ==
    [][\A r \in QueuedAbor(Immediate) : queue'[1] = r]_vars

\* C26, amended: abort() and abort(true) put ABOR at the front of the queue;
\* abort(false) appends it, behind every request not yet sent.
C26_AbortPromotesUnlessFalse ==
    [][/\ \A r \in QueuedAbor({"undefined", "true"}) : queue'[1] = r
       /\ \A r \in QueuedAbor({"false"}) : queue' = Append(queue, r)]_vars

\* An ABOR of abort(false) waits behind a request, and one of abort() or
\* abort(true) is ahead of a request.
C26_Witness ==
    /\ \E i \in 2..Len(queue) :
          reqs[queue[i]].cmd = "ABOR" /\ ops[reqs[queue[i]].op].arg = "false"
    /\ \E i \in 1..Len(queue) - 1 :
          reqs[queue[i]].cmd = "ABOR" /\ ops[reqs[queue[i]].op].arg # "false"

\* C27: a data operation whose data socket was up when an ABOR was written
\* settles by rejecting with code 'aborted', and by then its data socket is
\* destroyed.
C27_AbortedTransferRejects ==
    \A o \in DataOps :
       ops[o].aborting /\ ops[o].res # "pending" =>
          ops[o].res = "aborted" /\ ops[o].sock # "open"

\* The replies of the input that have arrived whole.
Arrived ==
    {k \in 1..Len(parser.replies) : Len(Stream(parser.replies, k)) <= parser.pos}

\* C28: whatever the chunks, the parser has emitted one 'response' event for
\* each reply that has arrived whole, in the order of the input and with the
\* reply's code, and none for the reply that has arrived in part.
C28_OneResponsePerReply ==
    /\ Len(parser.events) = Cardinality(Arrived)
    /\ \A k \in Arrived : parser.events[k].code = parseInt(parser.replies[k].code)
    /\ parser.buffer =
          SubSeq(Stream(parser.replies, Len(parser.replies)),
                 Len(Stream(parser.replies, Cardinality(Arrived))) + 1, parser.pos)

\* A multi-line reply with a padded line and a reply of another code have both
\* arrived, the second in more than one chunk, and have been emitted.
C28_Witness ==
    /\ Len(parser.replies) = 2
    /\ parser.replies[1].shape = "padded"
    /\ parser.replies[1].code # parser.replies[2].code
    /\ Len(parser.events) = 2

\* The replies to the login command c that the client has handled.
Handled(c) ==
    IF micro = <<>> THEN Answers(c) ELSE {}

\* C30: in explicit TLS mode a reply other than 234 to AUTH TLS is followed by
\* AUTH SSL; AUTH SSL answered 234 leads to the TLS handshake, and any other
\* reply to it fails connect; AUTH TLS answered 234 leads to the handshake with
\* no AUTH SSL sent.
C30_AuthSslFallback ==
    secure = "true" =>
       /\ Handled("AUTH TLS") \ {234} # {} => "AUTH SSL" \in Range(login.wire)
       /\ 234 \in Handled("AUTH SSL") => login.secstate = "upgraded-ssl"
       /\ Handled("AUTH SSL") \ {234} # {} => promise.st = "rejected"
       /\ 234 \in Handled("AUTH TLS") =>
             login.secstate = "upgraded-tls" /\ "AUTH SSL" \notin Range(login.wire)

\* The lines of text between the first and the last, without their spaces.
Features(text) ==
    [i \in 1..(Len(text) - 2) |-> SelectSeq(text[i + 1], LAMBDA w : w # SP)]

\* C31: FEAT answered 500 or 502 does not fail the login and TYPE I is sent
\* next; FEAT answered 211 makes the feature list the trimmed lines between the
\* first and the last line of the reply.
C31_FeatOptional ==
    /\ ~(promise.st = "rejected" /\ promise.code \in {500, 502} \cap Answers("FEAT"))
    /\ Handled("FEAT") # {} /\ curReq # None => "TYPE I" \in Range(login.wire)
    /\ 211 \in Handled("FEAT") =>
          login.feat.defined /\ login.feat.list = Features(login.text)

\* The connection attempt of data operation o fails in this step, the control
\* connection being up.
AttemptFails(o) ==
    /\ socket = "open"
    /\ ops[o].ph = "conn" /\ ops'[o] # ops[o] /\ ops'[o].sock # "open"

\* The data operations that sent ABOR after their last connection attempt
\* failed, and have settled.
GaveUp ==
    {o \in DataOps : ops[o].ph = "end" /\ ops[o].sock = "none" /\ Sent(o, "ABOR") # {}}

\* C32: a failed attempt to connect to the address of the PASV reply is
\* followed by one attempt to the control peer's address when the two differ,
\* and otherwise, as after that attempt, by ABOR; the operation then rejects
\* with the connection error.
C32_OneRetryThenAbor ==
    /\ [][\A o \in DataOps :
            AttemptFails(o) =>
               IF ops[o].ipSame
               THEN ops'[o].ph = "abor" /\ Sent(o, "ABOR")' # {}
               ELSE ops'[o].ph = "conn" /\ ops'[o].ipSame /\ Sent(o, "ABOR")' = {}]_vars
    /\ [](\A o \in GaveUp : ops[o].res = "connect")

\* The requests of operation o with command c that have been answered.
Done(o, c) ==
    {r \in Sent(o, c) : reqs[r].sent # <<>>}

\* C33: a listing with useCompression has MODE Z answered before LIST is
\* written, and once LIST was sent the operation does not settle without
\* MODE S sent after it.
C33_ModeZAroundData ==
    \A o \in DataOps :
       ops[o].useCompression =>
          /\ Sent(o, "LIST") # {} => Done(o, "MODE Z") # {}
          /\ Sent(o, "LIST") # {} /\ ops[o].ph = "end" => Sent(o, "MODE S") # {}

\* C34: a multi-line reply is ended only by a line that begins with its own
\* code and a space: the events are never more than the replies that have
\* arrived whole, and each has the code of its reply.
C34_SameCodeTerminates ==
    (\A k \in 1..Len(parser.replies) : parser.replies[k].shape # "cr") =>
       /\ Len(parser.events) <= Cardinality(Arrived)
       /\ \A k \in 1..Len(parser.events) :
             parser.events[k].code = parseInt(parser.replies[k].code)

\* The parser after the input up to pos was written to it in one chunk.
AtOnce ==
    _write([Unfed EXCEPT !.replies = parser.replies],
           SubSeq(Stream(parser.replies, Len(parser.replies)), 1, parser.pos))

\* C40: however the input so far was cut into chunks, the events emitted, with
\* code and text, and what is left in the buffer are those of the same input
\* written in one chunk.
C40_ChunkingIrrelevant ==
    parser = AtOnce

\* An input of two replies, one of them unusual, has arrived in at least three
\* chunks and events were emitted.
C40_Witness ==
    /\ Len(parser.replies) = 2
    /\ parser.replies[1].shape = "foreign" /\ parser.replies[2].shape = "multi"
    /\ parser.pos = Len(Stream(parser.replies, 2))
    /\ Len(parser.events) >= 2

\* C35: a session that was reset and is connected again starts with no
\* feature list and with the decision to use active mode cleared, so that no
\* PORT is sent in the new session before a PASV was.
C35_NegotiationStateReset ==
    /\ socket = "connecting" => ~login.feat.defined /\ ~active.usePort
    /\ \A u \in Logins : \A r \in u..Len(reqs) :
          reqs[r].cmd = "PORT" => \E q \in u..r : reqs[q].cmd = "PASV"

\* The range as the claim reads it: from the first number to the second.
PortsOfRange ==
    server.range[1]..server.range[2]

\* C36 as stated: for every range 'min-max' the ports tried are min, min+1,
\* ... in order and none beyond max; the listener is bound to the first port
\* of the range that can be bound; the promise is rejected with 'Unable to
\* find available port' exactly when no port of the range can be bound; and
\* no more than max-min+1 ports are tried.
C36_AnyRange ==
    server.st # "none" =>
       /\ \A i \in 1..Len(server.tried) : server.tried[i] = server.range[1] + i - 1
       /\ Len(server.tried) <= server.range[2] - server.range[1] + 1
       /\ server.st = "listening" =>
             /\ server.port \in PortsOfRange \ server.busy
             /\ \A p \in PortsOfRange : p < server.port => p \in server.busy
       /\ server.st = "rejected" =>
             server.msg = "Unable to find available port" /\ PortsOfRange \subseteq server.busy
       /\ PortsOfRange \subseteq server.busy => server.st \notin {"listening"}

\* A range of port numbers: 1 <= min <= max <= 65535.
WellFormed ==
    1 <= server.range[1] /\ server.range[1] <= server.range[2] /\ server.range[2] <= MaxPortNumber

\* C36: for a range 'min-max' with 1 <= min <= max <= 65535 the ports tried are
\* min, min+1, ... in order and none beyond max; the listener is bound to the
\* first port of the range that can be bound; the promise is rejected with
\* 'Unable to find available port' exactly when no port of the range can be
\* bound; and no more than max-min+1 ports are tried.
C36_PortRange ==
    server.st # "none" /\ WellFormed =>
       /\ \A i \in 1..Len(server.tried) : server.tried[i] = server.range[1] + i - 1
       /\ Len(server.tried) <= server.range[2] - server.range[1] + 1
       /\ server.st = "listening" =>
             /\ server.port \in PortsOfRange \ server.busy
             /\ \A p \in PortsOfRange : p < server.port => p \in server.busy
       /\ server.st = "rejected" =>
             server.msg = "Unable to find available port" /\ PortsOfRange \subseteq server.busy
       /\ PortsOfRange \subseteq server.busy => server.st \in {"binding", "rejected"}

\* A listener bound to the third port of its range, after two that failed.
C36_Witness ==
    WellFormed /\ server.st = "listening" /\ Len(server.tried) = 3

\* The answer is a preliminary reply and a positive final one.
TwoReplies ==
    Len(stream.all) = 2 /\ Retval(stream.all[2]) = OK

\* Nothing of the answer is still to be handled.
Quiet ==
    stream.input = <<>> /\ stream.chunk = <<>> /\ stream.jobs = <<>>

\* C37: when a preliminary and a final reply answer a data command, in one
\* chunk or in two, the loop reading the stream is given both, in order, and
\* once both were handled it has counted two replies.
C37_BothRepliesDelivered ==
    TwoReplies =>
       /\ \A i \in 1..Len(stream.codes) : i <= 2 /\ stream.codes[i] = stream.all[i]
       /\ Quiet => stream.codes = stream.all /\ stream.replies = 2

\* Both replies came in one chunk, and the loop has been given both.
C37_Witness ==
    TwoReplies /\ stream.chunks = 1 /\ Quiet /\ stream.codes = stream.all /\ stream.replies = 2

\* connect was rejected with an error reply of the server.
LoginRefused ==
    promise.st = "rejected" /\ promise.code >= 400

\* C38: once connect was rejected with an error reply during login, the
\* control socket is no longer open, the keepalive timer is not armed and no
\* NOOP is in flight.
C38_ShutDownAfterLoginError ==
    LoginRefused => socket # "open" /\ ~keepalive /\ curReq # NOOP

\* The data operations called before o have all settled.
PredecessorsSettled(o) ==
    \A j \in DataOps : j < o => ops[j].res # "pending"

\* C39: a data operation whose predecessors have all settled, resolved or
\* rejected, is not waiting in the chain any more: it has started its own
\* negotiation.
C39_FailureDoesNotBlock ==
    \A o \in DataOps : PredecessorsSettled(o) => ops[o].ph # "chained"

\* The first data operation was rejected and the second has sent PASV.
C39_Witness ==
    /\ Len(ops) = 2 /\ DataOps = {1, 2}
    /\ ops[1].res \notin {"pending", "ok"}
    /\ Sent(2, "PASV") # {}
====
